---------------------------- MODULE Spec2Model ----------------------------
(***************************************************************************)
(* PriceGuard: the monitoring scheduler, the queue dispatcher, the Celery  *)
(* workers that execute monitoring tasks, the retailer throttle and the    *)
(* notification delivery status, modelled from the Django/Celery sources.  *)
(*                                                                         *)
(* The database is the shared state.  Every handler keeps the copies of    *)
(* the rows it loaded (Django model instances) and writes back the fields  *)
(* its save(update_fields=...) names, so a handler is split into steps     *)
(* exactly where another process can run between two of its queries.       *)
(***************************************************************************)
EXTENDS Integers, Sequences, FiniteSets, Bags, TLC

VARIABLES
    now,        \* timezone.now(), in hours
    configs,    \* ProductMonitoringConfig rows, one per product
    products,   \* Product rows
    tasks,      \* MonitoringTask rows, in creation order (the index is the id)
    results,    \* MonitoringResult rows, in save order (the index is the id)
    stamp,      \* number of MonitoringResult objects built so far
    sched,      \* the invocations of schedule_products_for_monitoring
    disp,       \* the runs of process_monitoring_queue
    execs,      \* the Celery messages of the monitoring lanes and their execution
    thr,        \* one call of TaskDistributor.throttle_tasks_by_retailer
    delivery,   \* the NotificationDelivery rows
    events,     \* number of engagement events and send attempts handled so far
    lanes,      \* the lists and queues the TaskDistributor has built
    settings,   \* settings.NOTIFICATION_CHANNELS and NOTIFICATION_BATCHING
    cache,      \* the Django cache: throttle counters and alert markers
    batches,    \* NotificationBatch rows with their NotificationBatchItem rows
    calls,      \* the executions of schedule_notification_delivery
    batchq,     \* the process_notification_batch messages
    retryq,     \* the bag of retry_failed_notification messages
    rules,      \* the AlertRule rows
    engine,     \* the event given to evaluate_event and its evaluations
    load        \* one call of MonitoringSchedulingUtils._find_best_hour

vars == <<now, configs, products, tasks, results, stamp, sched, disp,
          execs, lanes, thr, delivery, events, settings, cache, batches,
          calls, batchq, retryq, rules, engine, load>>

-----------------------------------------------------------------------------
(* Bounds of the model *)

NumProducts == 2
MaxTasks == 2
MaxThrottleTasks == 6
MaxRunning == 1
NumDeliveries == 2
MaxEvents == 4
MaxTime == 1
MaxPrice == 2

(* Program constants *)

DefaultMaxRetries == 3
CeleryMaxRetries == 3
DefaultPriorityScore == 50
BatchSize == 1000
MaxTasksPerCycle == 200

NULL == 0 - 1

Products == 1..NumProducts
Prices == 1..MaxPrice
Schedulers == {"s1", "s2"}
Dispatchers == {"d1", "d2"}

Min(a, b) == IF a < b THEN a ELSE b
Max(a, b) == IF a > b THEN a ELSE b
Abs(x) == IF x < 0 THEN 0 - x ELSE x

\* the number of places of the sequence q that hold x
Count(q, x) == Cardinality({i \in DOMAIN q : q[i] = x})

-----------------------------------------------------------------------------
(* Retailers *)

\* product.retailer.name
RetailerName(p) ==
    IF p = 1 THEN "shop" ELSE IF p = 2 THEN "amazon" ELSE "fnac"

RetailerNames == {"amazon", "fnac", "shop"}

AmazonLimit == 20
FrenchChainLimit == 10
OtherLimit == 5
NewRetailerLimit == 5

\* 'amazon' in retailer_name.lower(), and the same for the French chains
IsAmazon(name) == name \in {"amazon"}
IsFrenchChain(name) == name \in {"fnac", "darty", "boulanger"}

\* manage_resource_throttling, lines 238-246
LimitFor(name) ==
    IF IsAmazon(name) THEN AmazonLimit
    ELSE IF IsFrenchChain(name) THEN FrenchChainLimit
    ELSE OtherLimit

-----------------------------------------------------------------------------
(* monitoring/models.py *)

\* get_monitoring_interval without the test of line 140 that the custom
\* hours are set
GetMonitoringIntervalUnguarded(config) ==
    IF config.frequency = "high" THEN 4
    ELSE IF config.frequency = "normal" THEN 12
    ELSE IF config.frequency = "low" THEN 24
    ELSE IF config.frequency = "custom" THEN config.custom_frequency_hours
    ELSE 12

\* ProductMonitoringConfig.get_monitoring_interval
GetMonitoringInterval(config) ==
    IF config.frequency = "high" THEN 4
    ELSE IF config.frequency = "normal" THEN 12
    ELSE IF config.frequency = "low" THEN 24
    ELSE IF config.frequency = "custom" /\ config.custom_frequency_hours > 0
         THEN config.custom_frequency_hours
    ELSE 12

\* MonitoringTask(product=..., scheduled_time=..., priority=...) with the
\* field defaults of the model
NewTask(p, t, prio) ==
    [product |-> p, scheduled_time |-> t, priority |-> prio,
     status |-> "pending", started_at |-> NULL, completed_at |-> NULL,
     error |-> FALSE, result_id |-> NULL, celery |-> NULL,
     retry_count |-> 0, max_retries |-> DefaultMaxRetries]

\* int(config.priority_score): the score is kept in tenths
IntPriority(score) == score \div 10

\* MonitoringTask.mark_as_failed on the instance `t` a worker holds: the
\* instance after the call, the fields its save() writes, and the value
\* returned (TRUE: the failure is final)
MarkAsFailedRetriesOffByOne(t) == t.retry_count <= t.max_retries

MarkAsFailedRetries(t) == t.retry_count < t.max_retries

MarkAsFailed(t, time) ==
    IF MarkAsFailedRetries(t)
    THEN [inst  |-> [t EXCEPT !.retry_count = t.retry_count + 1, !.error = TRUE],
          saved |-> {"retry_count", "error"},
          final |-> FALSE]
    ELSE [inst  |-> [t EXCEPT !.status = "failed", !.completed_at = time,
                              !.error = TRUE],
          saved |-> {"status", "completed_at", "error"},
          final |-> TRUE]

\* save(update_fields=fields): the row takes the named fields of the instance
SaveFields(row, inst, fields) ==
    [f \in DOMAIN row |-> IF f \in fields THEN inst[f] ELSE row[f]]


-----------------------------------------------------------------------------
(* The rows a query returns *)

TaskIds == DOMAIN tasks
ResultIds == DOMAIN results

\* MonitoringTask.objects.filter(status=...)
TasksWithStatus(st) == {t \in TaskIds : tasks[t].status = st}

\* order_by('priority', 'scheduled_time'): rows with equal keys come in any order
TaskBefore(a, b) ==
    \/ tasks[a].priority < tasks[b].priority
    \/ /\ tasks[a].priority = tasks[b].priority
       /\ tasks[a].scheduled_time < tasks[b].scheduled_time

RECURSIVE OrderedTasks(_)
OrderedTasks(S) ==
    IF S = {} THEN {<<>>}
    ELSE UNION {{<<m>> \o q : q \in OrderedTasks(S \ {m})} :
                m \in {x \in S : \A y \in S : ~TaskBefore(y, x)}}

\* queryset[:n]
FirstN(q, n) == SubSeq(q, 1, Min(n, Len(q)))

\* MonitoringResult.objects.filter(product=p).order_by('-monitored_at').first(),
\* NULL when the product has no result
LastResult(p) ==
    LET R == {r \in ResultIds : results[r].product = p}
    IN  IF R = {} THEN NULL
        ELSE CHOOSE r \in R : \A o \in R : results[o].seq <= results[r].seq

-----------------------------------------------------------------------------
(* The clock *)

Tick ==
    /\ now < MaxTime
    /\ now' = now + 1
    /\ UNCHANGED <<configs, products, tasks, results, stamp, sched, disp,
                   execs, lanes, thr, delivery, events, settings, cache,
                   batches, calls, batchq, retryq, rules, engine, load>>

-----------------------------------------------------------------------------
(* monitoring/services.py: MonitoringScheduler *)

\* the configs the query of schedule_products_for_monitoring returns
DueConfigs == {p \in Products : /\ configs[p].active
                                /\ configs[p].next_scheduled # NULL
                                /\ configs[p].next_scheduled <= now}

\* the tasks that invocations which have selected will still create
TasksToCome ==
    LET RECURSIVE Sum(_)
        Sum(S) == IF S = {} THEN 0
                  ELSE LET s == CHOOSE x \in S : TRUE
                       IN  Cardinality(sched[s].selected) + Sum(S \ {s})
    IN  Sum(Schedulers)

\* an invocation of schedule_products_for_monitoring that is not running;
\* tasks_created is what the last one returned
IdleScheduler(tasks_created) ==
    [pc |-> "idle", now |-> 0, selected |-> {}, batch_size |-> 0,
     tasks_created |-> tasks_created]

\* schedule_products_for_monitoring(batch_size), lines 27-33: now is read and
\* the query, which has no order_by, is evaluated (it returns the committed
\* rows: READ COMMITTED) and cut to batch_size rows
ScheduleSelect(s, batch_size) ==
    /\ sched[s].pc = "idle"
    /\ \E sel \in SUBSET DueConfigs :
          /\ sel # {}
          /\ Cardinality(sel) = Min(batch_size, Cardinality(DueConfigs))
          /\ Len(tasks) + TasksToCome + Cardinality(sel) <= MaxTasks
          /\ sched' = [sched EXCEPT ![s] =
                          [pc |-> "selected", now |-> now, selected |-> sel,
                           batch_size |-> batch_size, tasks_created |-> 0]]
    /\ UNCHANGED <<now, configs, products, tasks, results, stamp, disp, execs,
                   lanes, thr, delivery, events, settings, cache, batches,
                   calls, batchq, retryq, rules, engine, load>>

\* the periodic task schedule_monitoring_tasks with its default batch size
SchedSelect(s) == ScheduleSelect(s, BatchSize)

\* the tasks one invocation creates, in some order of the selected configs
RECURSIVE TasksFor(_, _)
TasksFor(sel, t) ==
    IF sel = {} THEN <<>>
    ELSE LET p == CHOOSE x \in sel : \A y \in sel : x <= y
         IN  <<NewTask(p, t, IntPriority(configs[p].priority_score))>>
             \o TasksFor(sel \ {p}, t)

\* schedule_products_for_monitoring, lines 37-57: the transaction creates one
\* task per selected config and advances its next_scheduled, then commits
SchedCommit(s) ==
    /\ sched[s].pc = "selected"
    /\ tasks' = tasks \o TasksFor(sched[s].selected, sched[s].now)
    /\ configs' = [p \in Products |->
                     IF p \in sched[s].selected
                     THEN [configs[p] EXCEPT !.next_scheduled =
                              sched[s].now + GetMonitoringInterval(configs[p])]
                     ELSE configs[p]]
    /\ sched' = [sched EXCEPT ![s] =
                    IdleScheduler(Cardinality(sched[s].selected))]
    /\ UNCHANGED <<now, products, results, stamp, disp, execs, lanes, thr,
                   delivery, events, settings, cache, batches, calls, batchq,
                   retryq, rules, engine, load>>

\* schedule_specific_product(product_id, priority), priority NULL when not given
ScheduleSpecificProduct ==
    /\ Len(tasks) + TasksToCome < MaxTasks
    /\ \E p \in Products, priority \in {NULL, 2} :
          /\ tasks' = Append(tasks,
                 NewTask(p, now, IF priority = NULL
                                 THEN IntPriority(configs[p].priority_score)
                                 ELSE priority))
          /\ configs' = [configs EXCEPT ![p].next_scheduled =
                            now + GetMonitoringInterval(configs[p])]
    /\ UNCHANGED <<now, products, results, stamp, sched, disp, execs, lanes,
                   thr, delivery, events, settings, cache, batches, calls,
                   batchq, retryq, rules, engine, load>>

Frequencies == {"high", "normal", "low", "custom"}

MinCustomHours == 1
MaxCustomHours == 168

\* MonitoringScheduler.update_product_monitoring_frequency(product_id,
\* frequency, custom_hours), lines 118-130; custom_hours NULL is None.  The
\* view update_frequency (monitoring/views.py 131-140) does the same.
UpdateProductMonitoringFrequency(p, frequency, custom_hours) ==
    /\ LET hours  == IF frequency = "custom" /\ custom_hours # NULL
                     THEN Max(MinCustomHours, Min(MaxCustomHours, custom_hours))
                     ELSE configs[p].custom_frequency_hours
           config == [configs[p] EXCEPT !.frequency = frequency,
                                        !.custom_frequency_hours = hours]
       IN  configs' = [configs EXCEPT ![p] =
              IF config.last_monitored # NULL
              THEN [config EXCEPT !.next_scheduled =
                       config.last_monitored + GetMonitoringInterval(config)]
              ELSE config]
    /\ UNCHANGED <<now, products, tasks, results, stamp, sched, disp, execs,
                   lanes, thr, delivery, events, settings, cache, batches,
                   calls, batchq, retryq, rules, engine, load>>

\* the update_data a bulk_update request can carry, of the fields the model
\* has
BulkUpdateData ==
    {[frequency |-> f] : f \in Frequencies}
      \cup {[active |-> a] : a \in BOOLEAN}
      \cup {[frequency |-> f, active |-> a] : f \in Frequencies, a \in BOOLEAN}

\* ProductMonitoringConfigViewSet.bulk_update (monitoring/views.py 169-199):
\* QuerySet.update of the allowed fields for the configs of product_ids
BulkUpdate(product_ids, update_data) ==
    /\ product_ids # {}
    /\ configs' = [p \in DOMAIN configs |->
          IF p \in product_ids
          THEN [configs[p] EXCEPT
                  !.frequency = IF "frequency" \in DOMAIN update_data
                                THEN update_data.frequency ELSE @,
                  !.active    = IF "active" \in DOMAIN update_data
                                THEN update_data.active ELSE @]
          ELSE configs[p]]
    /\ UNCHANGED <<now, products, tasks, results, stamp, sched, disp, execs,
                   lanes, thr, delivery, events, settings, cache, batches,
                   calls, batchq, retryq, rules, engine, load>>

-----------------------------------------------------------------------------
(* monitoring/tasks.py: process_monitoring_queue *)

\* the Celery queue the task of a priority is sent to
Lane(priority) ==
    IF priority <= 3 THEN "high_priority"
    ELSE IF priority <= 7 THEN "default"
    ELSE "low_priority"

NoTask == NewTask(0, 0, 0)
NoProduct == [current_price |-> 0, is_available |-> FALSE, lowest_price |-> 0,
              highest_price |-> 0, last_checked |-> 0, url |-> "",
              retailer_id |-> 0]
NoData == [price |-> 0, in_stock |-> FALSE, is_deal |-> FALSE]
NoResult == [product |-> 0, monitored_at |-> 0, seq |-> 0,
             previous_price |-> NULL, current_price |-> 0,
             price_changed |-> FALSE, price_change_amount |-> NULL,
             previously_available |-> NULL, currently_available |-> FALSE,
             availability_changed |-> FALSE, produced_by |-> 0,
             percentage_set |-> FALSE, price_change_percentage |-> 0,
             is_deal |-> FALSE, alert_triggered |-> FALSE,
             alert_type |-> "none"]

\* the message xxx_priority_monitoring.delay(task_id) puts on a lane
NewMessage(t) ==
    [task |-> t, lane |-> Lane(tasks[t].priority), retries |-> 0,
     pc |-> "queued", inst |-> NoTask, prod |-> NoProduct, data |-> NoData,
     result |-> NoResult, result_id |-> NULL]

\* lines 199-201: the pending tasks are read
DispatchStart(d) ==
    /\ disp[d].pc = "idle"
    /\ TasksWithStatus("pending") # {}
    /\ \E q \in OrderedTasks(TasksWithStatus("pending")) :
          disp' = [disp EXCEPT ![d] = [pc |-> "delay", sent |-> NULL,
                                       queue |-> FirstN(q, MaxTasksPerCycle)]]
    /\ UNCHANGED <<now, configs, products, tasks, results, stamp, sched,
                   execs, lanes, thr, delivery, events, settings, cache,
                   batches, calls, batchq, retryq, rules, engine, load>>

\* lines 212-220: the loop sends the message of the next task
DispatchDelay(d) ==
    /\ disp[d].pc = "delay"
    /\ execs' = Append(execs, NewMessage(Head(disp[d].queue)))
    /\ disp' = [disp EXCEPT ![d].pc = "save", ![d].sent = Len(execs) + 1]
    /\ UNCHANGED <<now, configs, products, tasks, results, stamp, sched,
                   lanes, thr, delivery, events, settings, cache, batches,
                   calls, batchq, retryq, rules, engine, load>>

\* lines 209, 223-224: the loop saves status and celery_task_id of the task
DispatchSave(d) ==
    /\ disp[d].pc = "save"
    /\ LET t == Head(disp[d].queue)
       IN  tasks' = [tasks EXCEPT ![t].status = "scheduled",
                                  ![t].celery = disp[d].sent]
    /\ disp' = [disp EXCEPT ![d] =
                  IF Tail(disp[d].queue) = <<>>
                  THEN [pc |-> "idle", sent |-> NULL, queue |-> <<>>]
                  ELSE [pc |-> "delay", sent |-> NULL,
                        queue |-> Tail(disp[d].queue)]]
    /\ UNCHANGED <<now, configs, products, results, stamp, sched, execs,
                   lanes, thr, delivery, events, settings, cache, batches,
                   calls, batchq, retryq, rules, engine, load>>

\* process_monitoring_queue, one step of the run d
Dispatch(d) ==
    \/ DispatchStart(d)
    \/ DispatchDelay(d)
    \/ DispatchSave(d)

-----------------------------------------------------------------------------
(* monitoring/tasks.py: _perform_monitoring, one execution of a message *)

Tri(b) == IF b THEN 1 ELSE 0

\* the execution has returned or raised: its instances are gone
Ended(x) ==
    [x EXCEPT !.pc = "done", !.inst = NoTask, !.prod = NoProduct,
              !.data = NoData, !.result = NoResult, !.result_id = NULL]

\* celery_task.retry(exc=e): the message goes back to its lane with one more
\* retry, unless the Celery task has used its max_retries
Retried(x) ==
    IF x.retries < CeleryMaxRetries
    THEN [Ended(x) EXCEPT !.pc = "queued", !.retries = x.retries + 1]
    ELSE Ended(x)

\* lines 66-73: the task is loaded with its product and marked running
WorkerStart(e) ==
    /\ execs[e].pc = "queued"
    /\ LET t    == execs[e].task
           inst == [tasks[t] EXCEPT !.status = "running", !.started_at = now]
       IN  /\ tasks' = [tasks EXCEPT ![t] =
                           SaveFields(tasks[t], inst, {"status", "started_at"})]
           /\ execs' = [execs EXCEPT ![e].pc = "started", ![e].inst = inst,
                                     ![e].prod = products[tasks[t].product]]
    /\ UNCHANGED <<now, configs, products, results, stamp, sched, disp, lanes,
                   thr, delivery, events, settings, cache, batches, calls,
                   batchq, retryq, rules, engine, load>>

\* get_extractor_for_url(url): the words it looks for in the host of the url;
\* a product url is kept as the word that names its host
ExtractorDomains == {"amazon", "fnac", "cdiscount", "darty"}

HasExtractor(url) == url \in ExtractorDomains

\* lines 72-75: no extractor exists for the host of the product's url. The
\* ValueError of get_extractor_for_url is raised before the inner try block
\* and leaves the Celery task; the task row is not written again.
NoExtractorForRetailer(e) ==
    /\ execs[e].pc = "started"
    /\ ~HasExtractor(execs[e].prod.url)
    /\ execs' = [execs EXCEPT ![e] = Ended(execs[e])]
    /\ UNCHANGED <<now, configs, products, tasks, results, stamp, sched, disp,
                   lanes, thr, delivery, events, settings, cache, batches,
                   calls, batchq, retryq, rules, engine, load>>

\* current_data.get('price', 0): a price of NULL is a price that is missing
DataPrice(data) == IF data.price = NULL THEN 0 ELSE data.price

\* float(amount) / float(previous_price) * 100, kept in hundredths of a percent
PercentageOf(amount, previous_price) ==
    IF amount < 0 THEN 0 - ((0 - amount) * 10000) \div previous_price
    ELSE (amount * 10000) \div previous_price

\* MonitoringResultsAnalyzer.analyze_result, lines 292-327: the result built
\* from the data and the last result `last` (NULL: none) of the product
BuildResult(p, data, last, time, seq, by) ==
    LET base == [NoResult EXCEPT !.product = p, !.monitored_at = time,
                                 !.seq = seq, !.current_price = DataPrice(data),
                                 !.currently_available = data.in_stock,
                                 !.is_deal = data.is_deal,
                                 !.produced_by = by]
    IN  IF last = NULL THEN base
        ELSE LET prev == results[last]
                 changed == prev.current_price # DataPrice(data)
                 amount == DataPrice(data) - prev.current_price
                 percent == changed /\ prev.current_price > 0
             IN  [base EXCEPT
                    !.previous_price = prev.current_price,
                    !.previously_available = Tri(prev.currently_available),
                    !.price_changed = changed,
                    !.price_change_amount = IF changed THEN amount ELSE NULL,
                    !.percentage_set = percent,
                    !.price_change_percentage =
                        IF percent THEN PercentageOf(amount, prev.current_price)
                        ELSE 0,
                    !.availability_changed =
                        prev.currently_available # data.in_stock]

\* the availability alert without the test of line 366 that the availability
\* changed
AvailabilityAlertUnguarded(result) ==
    IF result.previously_available # 1 /\ result.currently_available
      THEN [result EXCEPT !.alert_triggered = TRUE,
                          !.alert_type = "back_in_stock"]
    ELSE IF result.previously_available = 1 /\ ~result.currently_available
      THEN [result EXCEPT !.alert_triggered = TRUE,
                          !.alert_type = "out_of_stock"]
    ELSE result

\* _check_alert_conditions, lines 366-374: the availability alert
AvailabilityAlert(result) ==
    IF result.availability_changed
      THEN IF result.previously_available # 1 /\ result.currently_available
             THEN [result EXCEPT !.alert_triggered = TRUE,
                                 !.alert_type = "back_in_stock"]
           ELSE IF result.previously_available = 1
                   /\ ~result.currently_available
             THEN [result EXCEPT !.alert_triggered = TRUE,
                                 !.alert_type = "out_of_stock"]
           ELSE result
      ELSE result

\* lines 379-400: one of the thresholds of the config is met by the change
ThresholdMet(result, config) ==
    \/ /\ config.price_threshold_absolute # NULL
       /\ Abs(result.price_change_amount) >= config.price_threshold_absolute
    \/ /\ config.price_threshold_percentage # NULL
       /\ result.percentage_set
       /\ Abs(result.price_change_percentage)
            >= config.price_threshold_percentage * 100
    \/ config.notify_on_any_change

\* the alerts of a price change without the test of line 404 that the price
\* went down
PriceAlertAnyDirection(result, product, config) ==
    IF result.price_changed
      THEN LET drop == IF ThresholdMet(result, config)
                         THEN [result EXCEPT !.alert_triggered = TRUE,
                                             !.alert_type = "price_drop"]
                         ELSE result
           IN IF result.current_price = product.lowest_price
                THEN [drop EXCEPT !.alert_triggered = TRUE,
                                  !.alert_type = "lowest_price"]
                ELSE drop
      ELSE result

\* lines 377-413: the alerts of a price change, the drop first and then the
\* lowest price of the product instance
PriceAlert(result, product, config) ==
    IF result.price_changed
      THEN LET drop == IF ThresholdMet(result, config)
                          /\ result.price_change_amount < 0
                         THEN [result EXCEPT !.alert_triggered = TRUE,
                                             !.alert_type = "price_drop"]
                         ELSE result
           IN IF result.current_price = product.lowest_price
                THEN [drop EXCEPT !.alert_triggered = TRUE,
                                  !.alert_type = "lowest_price"]
                ELSE drop
      ELSE result

\* the deal alert without the test of line 416 that no alert is triggered yet
DealAlertOverAll(result) ==
    IF result.is_deal
      THEN [result EXCEPT !.alert_triggered = TRUE, !.alert_type = "deal"]
      ELSE result

\* lines 415-419: the deal alert
DealAlert(result) ==
    IF result.is_deal /\ ~result.alert_triggered
      THEN [result EXCEPT !.alert_triggered = TRUE, !.alert_type = "deal"]
      ELSE result

\* MonitoringResultsAnalyzer._check_alert_conditions(result, product) with
\* the config of the product
CheckAlertConditions(result, product, config) ==
    DealAlert(PriceAlert(AvailabilityAlert(result), product, config))

\* tasks.py lines 83-91 and analyze_result, lines 292-334: the extractor
\* returns the data the page shows (no other process sees that), then the last
\* result of the product is read and the result is built
Analyze(e, data) ==
    /\ execs[e].pc = "started"
    /\ HasExtractor(execs[e].prod.url)
    /\ LET p == execs[e].inst.product
       IN  execs' = [execs EXCEPT ![e].pc = "analyzing", ![e].data = data,
                        ![e].result = CheckAlertConditions(
                            BuildResult(p, data, LastResult(p), now, stamp + 1,
                                        execs[e].task),
                            execs[e].prod, configs[p])]
    /\ stamp' = stamp + 1
    /\ UNCHANGED <<now, configs, products, tasks, results, sched, disp, lanes,
                   thr, delivery, events, settings, cache, batches, calls,
                   batchq, retryq, rules, engine, load>>

\* the page shows a price and a stock, and no deal
AnalyzeRead(e) ==
    \E price \in Prices, stock \in BOOLEAN :
        Analyze(e, [price |-> price, in_stock |-> stock, is_deal |-> FALSE])

\* analyze_result, lines 337-347: the result and the config are saved
AnalyzeSave(e) ==
    /\ execs[e].pc = "analyzing"
    /\ results' = Append(results, execs[e].result)
    /\ configs' = [configs EXCEPT ![execs[e].inst.product].last_monitored =
                                      execs[e].result.monitored_at]
    /\ execs' = [execs EXCEPT ![e].pc = "analyzed",
                              ![e].result_id = Len(results) + 1,
                              ![e].result = NoResult]
    /\ UNCHANGED <<now, products, tasks, stamp, sched, disp, lanes, thr,
                   delivery, events, settings, cache, batches, calls, batchq,
                   retryq, rules, engine, load>>

UpdatedProductKeepsHighest(prod, data, time) ==
    LET price == IF data.price = NULL THEN prod.current_price ELSE data.price
    IN  [current_price |-> price,
         is_available  |-> data.in_stock,
         last_checked  |-> time,
         lowest_price  |-> IF price < prod.lowest_price THEN price
                           ELSE prod.lowest_price,
         highest_price |-> prod.highest_price,
         url           |-> prod.url]

\* lines 94-105: the product instance loaded with the task takes the data and
\* is saved, all its fields
UpdatedProduct(prod, data, time) ==
    LET price == IF data.price = NULL THEN prod.current_price ELSE data.price
    IN  [current_price |-> price,
         is_available  |-> data.in_stock,
         last_checked  |-> time,
         lowest_price  |-> IF price < prod.lowest_price THEN price
                           ELSE prod.lowest_price,
         highest_price |-> IF price > prod.highest_price THEN price
                           ELSE prod.highest_price,
         url           |-> prod.url]

ProductUpdate(e) ==
    /\ execs[e].pc = "analyzed"
    /\ LET prod == UpdatedProduct(execs[e].prod, execs[e].data, now)
       IN  /\ products' = [products EXCEPT ![execs[e].inst.product] = prod]
           /\ execs' = [execs EXCEPT ![e].pc = "updated", ![e].prod = prod]
    /\ UNCHANGED <<now, configs, tasks, results, stamp, sched, disp, lanes,
                   thr, delivery, events, settings, cache, batches, calls,
                   batchq, retryq, rules, engine, load>>

\* lines 108-123: mark_as_completed, whose save runs handle_task_completion
\* (monitoring/signals.py)
WorkerComplete(e) ==
    /\ execs[e].pc = "updated"
    /\ LET t    == execs[e].task
           p    == execs[e].inst.product
           inst == [execs[e].inst EXCEPT !.status = "completed",
                                         !.completed_at = now,
                                         !.result_id = execs[e].result_id]
       IN  /\ tasks' = [tasks EXCEPT ![t] = SaveFields(tasks[t], inst,
                           {"status", "completed_at", "result_id"})]
           /\ products' = [products EXCEPT ![p].last_checked = now]
           /\ configs' = [configs EXCEPT
                  ![p].last_monitored = now,
                  ![p].next_scheduled = now + GetMonitoringInterval(configs[p])]
           /\ execs' = [execs EXCEPT ![e] = Ended(execs[e])]
    /\ UNCHANGED <<now, results, stamp, sched, disp, lanes, thr, delivery,
                   events, settings, cache, batches, calls, batchq, retryq,
                   rules, engine, load>>

\* the places of the inner try block an exception can be raised from
InTry == {"started", "analyzing", "analyzed", "updated"}

\* lines 125-134: an exception inside the try block (the extractor fails or
\* returns nothing, a query fails, the soft time limit is reached)
WorkerFail(e) ==
    /\ execs[e].pc \in InTry
    /\ HasExtractor(execs[e].prod.url)
    /\ LET t == execs[e].task
           r == MarkAsFailed(execs[e].inst, now)
       IN  /\ tasks' = [tasks EXCEPT ![t] = SaveFields(tasks[t], r.inst, r.saved)]
           /\ execs' = [execs EXCEPT ![e] =
                           IF r.final THEN Ended(execs[e]) ELSE Retried(execs[e])]
    /\ UNCHANGED <<now, configs, products, results, stamp, sched, disp, lanes,
                   thr, delivery, events, settings, cache, batches, calls,
                   batchq, retryq, rules, engine, load>>

-----------------------------------------------------------------------------
(* monitoring/utils/task_distribution.py: the retailer throttle *)

\* manage_resource_throttling: `running` gives the number of running tasks of
\* each retailer; the result has an entry for each retailer that has some
ManageResourceThrottling(running) ==
    [name \in {r \in DOMAIN running : running[r] > 0} |->
        [current   |-> running[name],
         limit     |-> LimitFor(name),
         available |-> Max(0, LimitFor(name) - running[name])]]

\* the entry throttle_tasks_by_retailer adds for a retailer without one
NewRetailerEntry ==
    [current |-> 0, limit |-> NewRetailerLimit, available |-> NewRetailerLimit]

\* throttle_tasks_by_retailer, lines 274-290: the loop from task i on, with
\* the limits and the selected tasks (their places in `names`) so far
RECURSIVE ThrottleLoop(_, _, _, _, _)
ThrottleLoop(names, i, limits, count, selected) ==
    IF i > Len(names) THEN selected
    ELSE LET name == names[i]
             lim  == IF name \in DOMAIN limits THEN limits
                     ELSE [r \in DOMAIN limits \cup {name} |->
                             IF r = name THEN NewRetailerEntry ELSE limits[r]]
             cnt  == IF name \in DOMAIN count THEN count
                     ELSE [r \in DOMAIN count \cup {name} |->
                             IF r = name THEN 0 ELSE count[r]]
         IN  IF cnt[name] < lim[name].available
             THEN ThrottleLoop(names, i + 1, lim,
                               [cnt EXCEPT ![name] = cnt[name] + 1],
                               Append(selected, i))
             ELSE ThrottleLoop(names, i + 1, lim, cnt, selected)

\* throttle_tasks_by_retailer(tasks): `names` are the retailer names of the
\* tasks, the result the places of the selected tasks
ThrottleTasksByRetailer(names, running) ==
    LET limits == ManageResourceThrottling(running)
    IN  ThrottleLoop(names, 1, limits, [r \in DOMAIN limits |-> 0], <<>>)

ThrottleCall ==
    /\ thr.pc = "call"
    /\ thr' = [thr EXCEPT !.pc = "done",
                  !.selected = ThrottleTasksByRetailer(thr.names, thr.running)]
    /\ UNCHANGED <<now, configs, products, tasks, results, stamp, sched, disp,
                   execs, lanes, delivery, events, settings, cache, batches,
                   calls, batchq, retryq, rules, engine, load>>

-----------------------------------------------------------------------------
(* notifications/models.py, services.py, tasks.py: NotificationDelivery *)

\* a NotificationDelivery row as it is created; `attempts` counts the sends
\* the channel adapter was asked to do for it
NewDelivery == [status |-> "pending", retry_count |-> 0, attempts |-> 0]

\* NotificationDelivery.mark_as_sent, mark_as_delivered, mark_as_opened,
\* mark_as_clicked, mark_as_failed
MarkAsSent(d) == [d EXCEPT !.status = "sent"]
MarkAsDelivered(d) == [d EXCEPT !.status = "delivered"]
MarkAsOpened(d) == [d EXCEPT !.status = "opened"]
MarkAsClicked(d) == [d EXCEPT !.status = "clicked"]
MarkDeliveryFailed(d) == [d EXCEPT !.status = "failed"]

EventTypes == {"delivered", "opened", "clicked", "action_taken"}

\* EngagementService.track_engagement(delivery_id, event_type)
TrackEngagement(d, event_type) ==
    /\ events < MaxEvents
    /\ events' = events + 1
    /\ delivery' = [delivery EXCEPT ![d] =
          IF event_type = "delivered" THEN MarkAsDelivered(delivery[d])
          ELSE IF event_type = "opened" THEN MarkAsOpened(delivery[d])
          ELSE IF event_type = "clicked" THEN MarkAsClicked(delivery[d])
          ELSE delivery[d]]
    /\ UNCHANGED <<now, configs, products, tasks, results, stamp, sched, disp,
                   execs, lanes, thr, settings, cache, batches, calls, batchq,
                   retryq, rules, engine, load>>

\* the channel adapter's answer to the first send of a delivery
SendNotification(d, success) ==
    /\ events < MaxEvents
    /\ delivery[d].status = "pending"
    /\ events' = events + 1
    /\ LET tried == [delivery[d] EXCEPT !.attempts = delivery[d].attempts + 1]
       IN  delivery' = [delivery EXCEPT ![d] =
              IF success THEN MarkAsSent(tried) ELSE MarkDeliveryFailed(tried)]
    /\ UNCHANGED <<now, configs, products, tasks, results, stamp, sched, disp,
                   execs, lanes, thr, settings, cache, batches, calls, batchq,
                   retryq, rules, engine, load>>

MaxDeliveryRetries == 5

\* retry_failed_notification(delivery_id), lines 160-199, run to its end with
\* no other process in between
RetryFailedNotification(d, success) ==
    /\ events < MaxEvents
    /\ delivery[d].status = "failed"
    /\ events' = events + 1
    /\ LET counted == [delivery[d] EXCEPT
                          !.retry_count = delivery[d].retry_count + 1]
           tried   == [counted EXCEPT !.attempts = counted.attempts + 1]
       IN  delivery' = [delivery EXCEPT ![d] =
              IF counted.retry_count > MaxDeliveryRetries THEN counted
              ELSE IF success THEN MarkAsSent(tried)
              ELSE tried]
    /\ UNCHANGED <<now, configs, products, tasks, results, stamp, sched, disp,
                   execs, lanes, thr, settings, cache, batches, calls, batchq,
                   retryq, rules, engine, load>>

-----------------------------------------------------------------------------
(* Specifications *)

InitProduct ==
    [current_price |-> 1, is_available |-> TRUE, lowest_price |-> 1,
     highest_price |-> 1, last_checked |-> 0, url |-> "amazon",
     retailer_id |-> 1]

\* the config create_monitoring_config (monitoring/signals.py) gives a product
NewConfig(next) ==
    [active |-> TRUE, frequency |-> "normal", custom_frequency_hours |-> 0,
     notify_on_any_change |-> FALSE, price_threshold_percentage |-> NULL,
     price_threshold_absolute |-> NULL,
     priority_score |-> DefaultPriorityScore, last_monitored |-> NULL,
     next_scheduled |-> next]

NoLanes ==
    [pc |-> "idle", high_priority |-> <<>>, normal_priority |-> <<>>,
     low_priority |-> <<>>,
     queues |-> [high_priority |-> <<>>, default |-> <<>>,
                 low_priority |-> <<>>],
     max_tasks |-> 0, retailer_tasks |-> <<>>, distributed_tasks |-> <<>>,
     high_index |-> 0, normal_index |-> 0, low_index |-> 0,
     optimized_queue |-> <<>>]

InitIdle ==
    /\ now = 0
    /\ lanes = NoLanes
    /\ products = [p \in Products |-> InitProduct]
    /\ results = <<>>
    /\ stamp = 0
    /\ sched = [s \in Schedulers |-> IdleScheduler(0)]
    /\ disp = [d \in Dispatchers |-> [pc |-> "idle", sent |-> NULL, queue |-> <<>>]]
    /\ execs = <<>>

\* no alert rule and no event
InitRulesOff ==
    /\ rules = <<>>
    /\ engine = <<>>

\* no call of _find_best_hour
InitLoadOff == load = <<>>

\* nothing of the notification pipeline is in use
InitPipelineOff ==
    /\ settings = <<>>
    /\ cache = <<>>
    /\ batches = <<>>
    /\ calls = <<>>
    /\ batchq = <<>>
    /\ retryq = <<>>
    /\ InitRulesOff
    /\ InitLoadOff

InitOther ==
    /\ thr = [names |-> <<>>, running |-> <<>>, selected |-> <<>>, pc |-> "off"]
    /\ delivery = <<>>
    /\ events = 0
    /\ InitPipelineOff

\* The scheduler: products that were just created, or whose config was
\* deactivated or changed by the admin, and the invocations that schedule them
InitSched ==
    /\ InitIdle
    /\ InitOther
    /\ configs \in [Products ->
          {[NewConfig(n) EXCEPT !.active = a, !.frequency = f] :
              n \in {0, MaxTime}, a \in BOOLEAN, f \in {"high", "normal"}}]
    /\ tasks = <<>>

NextSched ==
    \/ Tick
    \/ \E s \in Schedulers : SchedSelect(s) \/ SchedCommit(s)

SpecSched == InitSched /\ [][NextSched]_vars

\* The tasks ScheduleSpecificProduct creates at time 0 for the products ps
RECURSIVE ScheduledTasks(_, _)
ScheduledTasks(ps, prio) ==
    IF ps = <<>> THEN <<>>
    ELSE <<NewTask(Head(ps), 0, prio)>> \o ScheduledTasks(Tail(ps), prio)

ScheduledConfig == NewConfig(GetMonitoringInterval(NewConfig(0)))

Worker ==
    \E e \in DOMAIN execs :
        \/ WorkerStart(e)
        \/ AnalyzeRead(e)
        \/ AnalyzeSave(e)
        \/ ProductUpdate(e)
        \/ WorkerComplete(e)
        \/ WorkerFail(e)

InitEngine ==
    /\ InitIdle
    /\ InitOther
    /\ configs = [p \in Products |-> ScheduledConfig]

\* The life of one task that was scheduled: the dispatch cycle that sends it
\* to its lane and the executions of its message
Init ==
    /\ InitEngine
    /\ \E p \in Products, prio \in {2, 5} : tasks = ScheduledTasks(<<p>>, prio)

Next ==
    \/ Dispatch("d1")
    \/ Worker

Spec == Init /\ [][Next]_vars

\* One task and two runs of the dispatcher that overlap, in runs where every
\* execution raises before it has data
InitOverlap ==
    /\ InitEngine
    /\ tasks = ScheduledTasks(<<1>>, 2)

NextOverlap ==
    \/ \E d \in Dispatchers : Dispatch(d)
    \/ \E e \in DOMAIN execs :
          \/ WorkerStart(e)
          \/ WorkerFail(e)

SpecOverlap == InitOverlap /\ [][NextOverlap]_vars

\* One task of product 1 while the clock runs and the administrator changes
\* the configs, in runs where no exception is raised
InitConfig ==
    /\ InitEngine
    /\ tasks = ScheduledTasks(<<1>>, 5)

NextConfig ==
    \/ Tick
    \/ Dispatch("d1")
    \/ \E e \in DOMAIN execs :
          \/ WorkerStart(e)
          \/ AnalyzeRead(e)
          \/ AnalyzeSave(e)
          \/ ProductUpdate(e)
          \/ WorkerComplete(e)
    \/ \E p \in Products, frequency \in Frequencies, custom_hours \in {NULL, 2} :
          UpdateProductMonitoringFrequency(p, frequency, custom_hours)
    \/ \E product_ids \in SUBSET Products, update_data \in BulkUpdateData :
          BulkUpdate(product_ids, update_data)

SpecConfig == InitConfig /\ [][NextConfig]_vars

\* Two tasks of one product in flight, in runs where no exception is raised
InitAnalyze ==
    /\ InitEngine
    /\ \E p \in Products, prio \in {2, 5} : tasks = ScheduledTasks(<<p, p>>, prio)

NextAnalyze ==
    \/ Dispatch("d1")
    \/ \E e \in DOMAIN execs :
          \/ WorkerStart(e)
          \/ AnalyzeRead(e)
          \/ AnalyzeSave(e)
          \/ ProductUpdate(e)
          \/ WorkerComplete(e)

SpecAnalyze == InitAnalyze /\ [][NextAnalyze]_vars

\* One more pending task of a retailer than its limit, the tasks scheduled at
\* successive hours; the dispatch cycles and the start of the executions
InitAdmission ==
    /\ InitEngine
    /\ tasks = [i \in 1..(LimitFor(RetailerName(1)) + 1) |-> NewTask(1, i - 1, 2)]

NextAdmission ==
    \/ Dispatch("d1")
    \/ \E e \in DOMAIN execs : WorkerStart(e)

SpecAdmission == InitAdmission /\ [][NextAdmission]_vars

\* One call of the throttle: any short list of tasks, or the 25 amazon and 5
\* fnac tasks of the retailer throttle scenario with nothing running
RECURSIVE SeqsUpTo(_, _)
SeqsUpTo(S, n) ==
    IF n = 0 THEN {<<>>}
    ELSE LET shorter == SeqsUpTo(S, n - 1)
         IN  shorter \cup {Append(q, x) : q \in {r \in shorter : Len(r) = n - 1},
                                          x \in S}

ScenarioNames == [i \in 1..30 |-> IF i <= 25 THEN "amazon" ELSE "fnac"]

InitEngineOff ==
    /\ InitIdle
    /\ configs = [p \in Products |-> ScheduledConfig]
    /\ tasks = <<>>

InitThrottle ==
    /\ InitEngineOff
    /\ delivery = <<>>
    /\ events = 0
    /\ InitPipelineOff
    /\ \/ \E names \in SeqsUpTo(RetailerNames, MaxThrottleTasks),
             running \in [RetailerNames -> 0..MaxRunning] :
             thr = [names |-> names, running |-> running, selected |-> <<>>,
                    pc |-> "call"]
       \/ thr = [names |-> ScenarioNames,
                 running |-> [r \in RetailerNames |-> 0],
                 selected |-> <<>>, pc |-> "call"]

SpecThrottle == InitThrottle /\ [][ThrottleCall]_vars

\* The deliveries of notifications: the sends, the retries of failed sends and
\* the engagement events, in any order
InitDelivery ==
    /\ InitEngineOff
    /\ thr = [names |-> <<>>, running |-> <<>>, selected |-> <<>>, pc |-> "off"]
    /\ delivery = [d \in 1..NumDeliveries |-> NewDelivery]
    /\ events = 0
    /\ InitPipelineOff

NextDelivery ==
    \E d \in DOMAIN delivery :
        \/ \E success \in BOOLEAN : SendNotification(d, success)
        \/ \E success \in BOOLEAN : RetryFailedNotification(d, success)
        \/ \E event_type \in EventTypes : TrackEngagement(d, event_type)

SpecDelivery == InitDelivery /\ [][NextDelivery]_vars

-----------------------------------------------------------------------------
(* Properties *)

\* C1: a failure of a task that has retries left adds one to its retry count,
\* puts its status back to pending and leaves completed_at unset; a task
\* becomes failed only when its retry count has reached max_retries, and
\* completed_at is set at that failure.
C1_RetryThenFail ==
    [][\A t \in TaskIds :
          /\ tasks'[t].retry_count # tasks[t].retry_count =>
                /\ tasks[t].retry_count < tasks[t].max_retries
                /\ tasks'[t].retry_count = tasks[t].retry_count + 1
                /\ tasks'[t].status = "pending"
                /\ tasks'[t].completed_at = NULL
          /\ (tasks'[t].status = "failed" /\ tasks[t].status # "failed") =>
                /\ tasks[t].retry_count = tasks[t].max_retries
                /\ tasks'[t].completed_at # NULL]_vars

\* C2: under every interleaving of the dispatcher and the workers, a task
\* that is completed or failed keeps its status and a task that a worker has
\* marked running is never set back to scheduled.
C2_StatusFollowsStateMachine ==
    [][\A t \in TaskIds :
          /\ tasks[t].status \in {"completed", "failed"} =>
                tasks'[t].status = tasks[t].status
          /\ tasks[t].status = "running" =>
                tasks'[t].status # "scheduled"]_vars

C4_OneTaskPerDueProduct ==
    \A p \in Products : \A time \in 0..MaxTime :
        Cardinality({t \in TaskIds : /\ tasks[t].product = p
                                     /\ tasks[t].scheduled_time = time}) <= 1

RunningCount(name) ==
    Cardinality({t \in TaskIds : /\ tasks[t].status = "running"
                                 /\ RetailerName(tasks[t].product) = name})

\* C5: the number of running tasks of a retailer never exceeds the limit of
\* the retailer.
C5_RunningWithinLimit ==
    \A p \in Products :
        RunningCount(RetailerName(p)) <= LimitFor(RetailerName(p))

\* C6: one call of the throttle selects, of each retailer, as many tasks as
\* are pending up to the limit of the retailer less its running tasks, also
\* for a retailer that has no running task: 20 amazon and 5 fnac tasks out of
\* 25 amazon and 5 fnac tasks when nothing runs.
C6_SelectsUpToOwnLimit ==
    thr.pc = "done" =>
        \A name \in RetailerNames :
            Cardinality({i \in DOMAIN thr.selected :
                            thr.names[thr.selected[i]] = name})
              = Min(Count(thr.names, name),
                    Max(0, LimitFor(name) - thr.running[name]))

\* the result that was built just before the result r for the same product
Preceding(r) ==
    LET earlier == {q \in ResultIds : /\ results[q].product = results[r].product
                                      /\ results[q].seq < results[r].seq}
    IN  IF earlier = {} THEN NULL
        ELSE CHOOSE q \in earlier : \A o \in earlier : results[o].seq <= results[q].seq

\* C7: the previous price and availability of every result of a product are
\* the current price and availability of the result that precedes it.
C7_PreviousIsPreceding ==
    \A r \in ResultIds :
        IF Preceding(r) = NULL
        THEN /\ results[r].previous_price = NULL
             /\ results[r].previously_available = NULL
        ELSE /\ results[r].previous_price = results[Preceding(r)].current_price
             /\ results[r].previously_available
                  = Tri(results[Preceding(r)].currently_available)

\* C8: a completed task has exactly one result, whatever failures were
\* retried before it completed.
C8_OneResultPerCompletedTask ==
    \A t \in TaskIds :
        tasks[t].status = "completed" =>
            Cardinality({r \in ResultIds : results[r].produced_by = t}) = 1

\* C9: the result of an observation and the update of its product become
\* visible together: the product carries the price and availability of its
\* last result.
C9_ResultWithProductUpdate ==
    \A p \in Products :
        LastResult(p) # NULL =>
            /\ products[p].current_price = results[LastResult(p)].current_price
            /\ products[p].is_available = results[LastResult(p)].currently_available

DeliveryRank(status) ==
    CASE status = "pending" -> 0
      [] status = "sent" -> 1
      [] status = "delivered" -> 2
      [] status = "opened" -> 3
      [] status = "clicked" -> 4
      [] OTHER -> NULL

\* C10: no send result and no engagement event, in whatever order they
\* arrive, lowers the status of a delivery in the order pending, sent,
\* delivered, opened, clicked.
C10_StatusNeverLowered ==
    [][\A d \in DOMAIN delivery :
          (delivery[d].status # "failed" /\ delivery'[d].status # "failed") =>
              DeliveryRank(delivery'[d].status) >= DeliveryRank(delivery[d].status)]_vars

\* C11: every config that has both last_monitored and next_scheduled has
\* next_scheduled >= last_monitored + interval(frequency).
C11_NextAfterLastPlusInterval ==
    \A p \in Products :
        (configs[p].last_monitored # NULL /\ configs[p].next_scheduled # NULL) =>
            configs[p].next_scheduled
              >= configs[p].last_monitored + GetMonitoringInterval(configs[p])

\* C12: the step that persists a result sets next_scheduled of the config to
\* last_monitored + interval(frequency), and every config that has a
\* last_monitored has next_scheduled = last_monitored + interval(frequency).
C12_NextIsLastPlusInterval ==
    [][\A p \in Products :
          /\ Len(results') > Len(results) /\ results'[Len(results')].product = p =>
                configs'[p].next_scheduled
                  = configs'[p].last_monitored + GetMonitoringInterval(configs'[p])
          /\ configs'[p].last_monitored # NULL =>
                configs'[p].next_scheduled
                  = configs'[p].last_monitored + GetMonitoringInterval(configs'[p])]_vars

NumAlerts == 3
MaxThrottleLimit == 2
MaxBatchMessages == 3
DefaultThrottleLimit == 100
DefaultRulePriority == 5
ForcedImmediatePriority == 9
MaxNotificationPriority == 10
HourlyDelay == 1
DailyDelay == 24

Alerts == 1..NumAlerts
Channels == {"email", "push"}
BatchTypes == {"immediate", "hourly", "daily"}
PipelineWorkers == {"w1", "w2"}

\* the notification priority of an alert: the priority of its rule, raised
\* for large price drops and for an historic lowest price
NotificationPriority(rule_priority, event_data) ==
    LET diff_pct == Abs(event_data.price_diff_pct)
        raised == IF diff_pct > 20
                    THEN Min(MaxNotificationPriority, rule_priority + 2)
                    ELSE IF diff_pct > 10
                           THEN Min(MaxNotificationPriority, rule_priority + 1)
                           ELSE rule_priority
    IN IF event_data.event_type = "price_drop"
         THEN IF event_data.is_lowest_price THEN MaxNotificationPriority
                                            ELSE raised
         ELSE rule_priority

BatchTypeForWeakThreshold(user_preference, default, priority) ==
    LET preferred == IF user_preference \in BatchTypes THEN user_preference
                                                       ELSE default
    IN IF priority > ForcedImmediatePriority THEN "immediate" ELSE preferred

\* the batch type of a notification: the user's preference, the channel's
\* default for any other preference, and immediate for a critical priority
BatchTypeFor(user_preference, default, priority) ==
    LET preferred == IF user_preference \in BatchTypes THEN user_preference
                                                       ELSE default
    IN IF priority >= ForcedImmediatePriority THEN "immediate" ELSE preferred

NoMessage == [alert |-> 0, channel |-> "email", batch_type |-> "immediate",
              priority |-> 0]
NoCall == [pc |-> "idle", msg |-> NoMessage, current_count |-> 0,
           existing_batch |-> 0, items_count |-> 0]

\* AlertRuleService._schedule_notifications: the alerts and messages c with
\* one schedule_notification_delivery message more for each enabled channel
Scheduled(c, rule_priority, event_data, user_preference, enabled) ==
    LET alert == Len(c.alerts) + 1
        priority == NotificationPriority(rule_priority, event_data)
    IN [c EXCEPT
            !.alerts = Append(@, [priority |-> priority,
                                  user_preference |-> user_preference]),
            !.msgs = @ \cup
               {[alert |-> alert, channel |-> channel,
                 batch_type |-> BatchTypeFor(user_preference,
                                    settings.batching_default[channel],
                                    priority),
                 priority |-> priority] : channel \in enabled}]

\* _schedule_notifications for the alert of one rule that fired
ScheduleNotifications(rule_priority, event_data, user_preference, enabled) ==
    /\ Len(calls.alerts) + 1 \in Alerts
    /\ calls' = Scheduled(calls, rule_priority, event_data, user_preference,
                       enabled)
    /\ UNCHANGED <<now, configs, products, tasks, results, stamp, sched, disp,
                   execs, lanes, thr, delivery, events, settings, cache,
                   batches, batchq, retryq, rules, engine, load>>

\* schedule_notification_delivery up to the reads of should_send_notification:
\* the alert marker and the counter of the channel are read from the cache
ShouldSendNotificationRead(w, m) ==
    LET channel == m.channel
        limit == settings.throttle_limit[channel]
        current_count == IF cache.count[channel] = NULL THEN 0
                         ELSE cache.count[channel]
        blocked == \/ <<m.alert, channel>> \in cache.alerts
                   \/ current_count >= limit
    IN /\ calls.run[w].pc = "idle"
       /\ m \in calls.msgs
       /\ calls' = [calls EXCEPT
            !.msgs = @ \ {m},
            !.run[w] = IF blocked THEN NoCall
                       ELSE [NoCall EXCEPT !.pc = "throttle", !.msg = m,
                                           !.current_count = current_count]]
       /\ UNCHANGED <<now, configs, products, tasks, results, stamp, sched,
                      disp, execs, lanes, thr, delivery, events, settings,
                      cache, batches, batchq, retryq, rules, engine, load>>

\* the two cache.set calls of should_send_notification, which then answers
\* True; admitted counts the True answers since the counter key was absent
\* and log keeps the times of the True answers, the last of which is the
\* time the timeout of the counter key was set
ShouldSendNotificationSet(w) ==
    LET c == calls.run[w]
        channel == c.msg.channel
    IN /\ c.pc = "throttle"
       /\ cache' = [cache EXCEPT
            !.count[channel] = c.current_count + 1,
            !.alerts = @ \cup {<<c.msg.alert, channel>>},
            !.admitted[channel] = @ + 1,
            !.log[channel] = Append(@, now)]
       /\ calls' = [calls EXCEPT !.run[w].pc = "route"]
       /\ UNCHANGED <<now, configs, products, tasks, results, stamp, sched,
                      disp, execs, lanes, thr, delivery, events, settings,
                      batches, batchq, retryq, rules, engine, load>>

\* the counter key of a channel reaches the end of its period
CacheExpire(channel) ==
    /\ cache.count[channel] # NULL
    /\ cache' = [cache EXCEPT !.count[channel] = NULL,
                              !.admitted[channel] = 0]
    /\ UNCHANGED <<now, configs, products, tasks, results, stamp, sched, disp,
                   execs, lanes, thr, delivery, events, settings, batches,
                   calls, batchq, retryq, rules, engine, load>>

\* period_seconds, in units of the clock
ThrottlePeriod == 3
MaxCacheTime == 4

\* cache.set(cache_key, current_count + 1, period_seconds): the counter key
\* is gone period_seconds after it was set for the last time
CounterExpiresBy(channel, time) ==
    /\ cache.count[channel] # NULL
    /\ cache.log[channel] # <<>>
    /\ cache.log[channel][Len(cache.log[channel])] + ThrottlePeriod <= time

\* the clock advances and the counter keys whose timeout is reached are gone
CacheTick ==
    /\ now < MaxCacheTime
    /\ now' = now + 1
    /\ cache' = [cache EXCEPT
          !.count = [c \in Channels |->
                        IF CounterExpiresBy(c, now + 1) THEN NULL ELSE @[c]],
          !.admitted = [c \in Channels |->
                        IF CounterExpiresBy(c, now + 1) THEN 0 ELSE @[c]]]
    /\ UNCHANGED <<configs, products, tasks, results, stamp, sched, disp,
                   execs, lanes, thr, delivery, events, settings, batches,
                   calls, batchq, retryq, rules, engine, load>>

\* NotificationService.process_immediate_notification: a delivery of its own
\* for the alert
ProcessImmediateNotification(w) ==
    LET c == calls.run[w]
    IN /\ c.pc = "route"
       /\ c.msg.batch_type = "immediate"
       /\ delivery' = Append(delivery,
                             NewDelivery @@ [alert |-> c.msg.alert,
                                             channel |-> c.msg.channel])
       /\ calls' = [calls EXCEPT !.run[w] = NoCall]
       /\ UNCHANGED <<now, configs, products, tasks, results, stamp, sched,
                      disp, execs, lanes, thr, events, settings, cache,
                      batches, batchq, retryq, rules, engine, load>>

OpenBatches(channel, batch_type) ==
    {b \in DOMAIN batches :
        /\ batches[b].channel = channel
        /\ batches[b].batch_type = batch_type
        /\ batches[b].status = "pending"
        /\ batches[b].scheduled_for > now}

\* the lookup of a pending batch of the user, the channel and the type that
\* is not due yet; the queryset has no order, first() is any of its rows
ExistingBatchLookup(w) ==
    LET c == calls.run[w]
        open == OpenBatches(c.msg.channel, c.msg.batch_type)
    IN /\ c.pc = "route"
       /\ c.msg.batch_type # "immediate"
       /\ \/ /\ open = {}
             /\ calls' = [calls EXCEPT !.run[w].pc = "create"]
          \/ \E b \in open :
                calls' = [calls EXCEPT
                    !.run[w].pc = "append",
                    !.run[w].existing_batch = b,
                    !.run[w].items_count = batches[b].items_count]
       /\ UNCHANGED <<now, configs, products, tasks, results, stamp, sched,
                      disp, execs, lanes, thr, delivery, events, settings,
                      cache, batches, batchq, retryq, rules, engine, load>>

\* the alert joins the batch that was found unless it is an item already;
\* items_count is saved from the instance that the lookup loaded
AddToExistingBatch(w) ==
    LET c == calls.run[w]
        b == c.existing_batch
        present == \E i \in DOMAIN batches[b].items :
                       batches[b].items[i] = c.msg.alert
    IN /\ c.pc = "append"
       /\ batches' = IF present THEN batches
                     ELSE [batches EXCEPT
                             ![b].items = Append(@, c.msg.alert),
                             ![b].items_count = c.items_count + 1]
       /\ calls' = [calls EXCEPT !.run[w] = NoCall]
       /\ UNCHANGED <<now, configs, products, tasks, results, stamp, sched,
                      disp, execs, lanes, thr, delivery, events, settings,
                      cache, batchq, retryq, rules, engine, load>>

ScheduledFor(batch_type) ==
    IF batch_type = "hourly" THEN now + HourlyDelay ELSE now + DailyDelay

\* NotificationService.create_notification_batch: a pending batch of the
\* alert that is due at the next boundary of its type
NewBatch(m) ==
    [channel |-> m.channel, batch_type |-> m.batch_type, status |-> "pending",
     scheduled_for |-> ScheduledFor(m.batch_type), items |-> <<m.alert>>,
     items_count |-> 1, handed |-> 1, sends |-> 0]

\* no batch was found: a batch is created and its processing is scheduled
\* for the time it is due; handed counts the process_notification_batch
\* messages sent for the batch
CreateNotificationBatch(w) ==
    LET c == calls.run[w]
        batch == NewBatch(c.msg)
    IN /\ c.pc = "create"
       /\ batches' = Append(batches, batch)
       /\ batchq' = Append(batchq, [batch |-> Len(batches) + 1,
                                    eta |-> batch.scheduled_for])
       /\ calls' = [calls EXCEPT !.run[w] = NoCall]
       /\ UNCHANGED <<now, configs, products, tasks, results, stamp, sched,
                      disp, execs, lanes, thr, delivery, events, settings,
                      cache, retryq, rules, engine, load>>

ReadyBatches ==
    {b \in DOMAIN batches :
        batches[b].status = "pending" /\ batches[b].scheduled_for <= now}

RECURSIVE DelayAll(_, _)
DelayAll(q, ready) ==
    IF ready = {} THEN q
    ELSE LET b == CHOOSE x \in ready : \A y \in ready : x <= y
         IN DelayAll(Append(q, [batch |-> b, eta |-> now]), ready \ {b})

\* process_pending_batches: a process_notification_batch message for every
\* pending batch that is due
ProcessPendingBatches ==
    /\ ReadyBatches # {}
    /\ Len(batchq) + Cardinality(ReadyBatches) <= MaxBatchMessages
    /\ batchq' = DelayAll(batchq, ReadyBatches)
    /\ batches' = [b \in DOMAIN batches |->
                     IF b \in ReadyBatches
                       THEN [batches[b] EXCEPT !.handed = @ + 1]
                       ELSE batches[b]]
    /\ UNCHANGED <<now, configs, products, tasks, results, stamp, sched, disp,
                   execs, lanes, thr, delivery, events, settings, cache,
                   calls, retryq, rules, engine, load>>

RemoveAt(q, i) == [j \in 1..(Len(q) - 1) |-> IF j < i THEN q[j] ELSE q[j + 1]]

\* process_notification_batch with NotificationService.process_notification_batch:
\* a pending batch is sent through the adapter of its channel, once
ProcessNotificationBatch(i, success) ==
    LET b == batchq[i].batch
    IN /\ i \in DOMAIN batchq
       /\ batchq[i].eta <= now
       /\ batchq' = RemoveAt(batchq, i)
       /\ batches' = IF batches[b].status = "pending"
                       THEN [batches EXCEPT
                               ![b].status = IF success THEN "sent"
                                                        ELSE "failed",
                               ![b].sends = @ + 1]
                       ELSE batches
       /\ UNCHANGED <<now, configs, products, tasks, results, stamp, sched,
                      disp, execs, lanes, thr, delivery, events, settings,
                      cache, calls, retryq, rules, engine, load>>

ThrottleLimits == (1..MaxThrottleLimit) \cup {DefaultThrottleLimit}

NewSettings(limit, default) ==
    [throttle_limit |-> [c \in Channels |-> limit],
     batching_default |-> [c \in Channels |-> default]]

\* the notification pipeline before any alert
InitNotifications ==
    /\ InitEngineOff
    /\ thr = [names |-> <<>>, running |-> <<>>, selected |-> <<>>, pc |-> "off"]
    /\ delivery = <<>>
    /\ events = 0
    /\ cache = [count |-> [c \in Channels |-> NULL], alerts |-> {},
                admitted |-> [c \in Channels |-> 0],
                log |-> [c \in Channels |-> <<>>]]
    /\ batches = <<>>
    /\ calls = [alerts |-> <<>>, msgs |-> {},
                run |-> [w \in PipelineWorkers |-> NoCall]]
    /\ batchq = <<>>
    /\ retryq = <<>>

InitPipeline ==
    /\ InitNotifications
    /\ InitRulesOff
    /\ InitLoadOff

PriceRise == [event_type |-> "price_increase", price_diff_pct |-> 5,
              is_lowest_price |-> FALSE]

\* The throttle: alerts of immediate notifications by e-mail
InitShouldSend ==
    /\ InitPipeline
    /\ \E limit \in ThrottleLimits : settings = NewSettings(limit, "immediate")

NextShouldSend ==
    \/ ScheduleNotifications(DefaultRulePriority, PriceRise, "immediate",
                             {"email"})
    \/ \E w \in PipelineWorkers :
          \/ \E m \in calls.msgs : ShouldSendNotificationRead(w, m)
          \/ ShouldSendNotificationSet(w)
          \/ ProcessImmediateNotification(w)
    \/ \E channel \in Channels : CacheExpire(channel)

SpecShouldSend == InitShouldSend /\ [][NextShouldSend]_vars

\* Batching: alerts of hourly and immediate notifications by e-mail under
\* the default throttle, the sweep and the processing of the batches
InitBatching ==
    /\ InitPipeline
    /\ settings = NewSettings(DefaultThrottleLimit, "hourly")

NextBatching ==
    \/ Tick
    \/ \E user_preference \in {"immediate", "hourly"} :
          ScheduleNotifications(DefaultRulePriority, PriceRise,
                                user_preference, {"email"})
    \/ \E w \in PipelineWorkers :
          \/ \E m \in calls.msgs : ShouldSendNotificationRead(w, m)
          \/ ShouldSendNotificationSet(w)
          \/ ProcessImmediateNotification(w)
          \/ ExistingBatchLookup(w)
          \/ AddToExistingBatch(w)
          \/ CreateNotificationBatch(w)
    \/ ProcessPendingBatches
    \/ \E i \in DOMAIN batchq, success \in BOOLEAN :
          ProcessNotificationBatch(i, success)

SpecBatching == InitBatching /\ [][NextBatching]_vars

\* ------------------------------------------------------------------------
\* The retries of failed deliveries as Celery messages.

RetryTaskMaxRetries == 5
BackoffMinutes == 5

\* self.retry(countdown = c) in an execution of message m: a new message of
\* the task unless the message was retried max_retries times already
SelfRetry(q, m, c) ==
    IF m.retries >= RetryTaskMaxRetries THEN q
    ELSE q (+) SetToBag({[delivery |-> m.delivery, retries |-> m.retries + 1,
                          countdown |-> c]})

\* one execution of retry_failed_notification(delivery_id) for message m.
\* A failed send calls self.retry inside the try block; what self.retry
\* raises is an Exception, and the handler of the block calls self.retry
\* once more with the fixed countdown.
RetryFailedNotificationRun(m, success) ==
    LET d == m.delivery
        rest == retryq (-) SetToBag({m})
        counted == [delivery[d] EXCEPT !.retry_count = @ + 1]
        tried == [counted EXCEPT !.attempts = @ + 1]
        retry_delay == BackoffMinutes * 2 ^ (counted.retry_count - 1)
    IN /\ BagIn(m, retryq)
       /\ IF delivery[d].status # "failed"
            THEN /\ retryq' = rest
                 /\ UNCHANGED delivery
            ELSE IF counted.retry_count > MaxDeliveryRetries
                   THEN /\ retryq' = rest
                        /\ delivery' = [delivery EXCEPT ![d] = counted]
                   ELSE IF success
                          THEN /\ retryq' = rest
                               /\ delivery' = [delivery EXCEPT
                                                 ![d] = MarkAsSent(tried)]
                          ELSE /\ retryq' = SelfRetry(
                                               SelfRetry(rest, m, retry_delay),
                                               m, BackoffMinutes)
                               /\ delivery' = [delivery EXCEPT ![d] = tried]
       /\ UNCHANGED <<now, configs, products, tasks, results, stamp, sched,
                      disp, execs, lanes, thr, events, settings, cache,
                      batches, calls, batchq, rules, engine, load>>

\* a delivery after its first send: failed, or sent
FailedDelivery == [NewDelivery EXCEPT !.status = "failed", !.attempts = 1]
SentDelivery == [NewDelivery EXCEPT !.status = "sent", !.attempts = 1]

\* the first send of delivery 1 has failed and its first retry message is
\* queued; the other deliveries were sent

InitRetry ==
    /\ InitEngineOff
    /\ thr = [names |-> <<>>, running |-> <<>>, selected |-> <<>>, pc |-> "off"]
    /\ events = 0
    /\ settings = <<>>
    /\ cache = <<>>
    /\ batches = <<>>
    /\ calls = <<>>
    /\ batchq = <<>>
    /\ delivery = [d \in 1..NumDeliveries |->
                      IF d = 1 THEN FailedDelivery ELSE SentDelivery]
    /\ retryq = SetToBag({[delivery |-> 1, retries |-> 0, countdown |-> 0]})
    /\ InitRulesOff
    /\ InitLoadOff

NextRetry ==
    \E m \in BagToSet(retryq), success \in BOOLEAN :
        RetryFailedNotificationRun(m, success)

SpecRetry == InitRetry /\ [][NextRetry]_vars

\* C17: a failed delivery is re-sent with the backoff 5 min * 2^n, n the
\* index of the retry, at most 5 send attempts are made for one delivery,
\* and a delivery that reached the cap stays failed with no attempt queued
\* that would send it again.
C17_BackoffAndAttemptCap ==
    /\ \A d \in DOMAIN delivery : delivery[d].attempts <= MaxDeliveryRetries
    /\ \A m \in BagToSet(retryq) :
          m.retries >= 1 => m.countdown = BackoffMinutes * 2 ^ (m.retries - 1)

\* Priorities and batching: alerts of rules of several priorities, raised
\* by price drops or not, under every preference and every channel default
RulePriorities == {7, 8}
EventData ==
    {PriceRise} \cup
    [event_type : {"price_drop"}, price_diff_pct : {0 - 25, 0 - 15},
     is_lowest_price : BOOLEAN]
UserPreferences == BatchTypes \cup {"realtime"}

InitNotify ==
    /\ InitPipeline
    /\ \E default \in BatchTypes :
          settings = NewSettings(DefaultThrottleLimit, default)

NextNotify ==
    \/ \E rule_priority \in RulePriorities, event_data \in EventData,
          user_preference \in UserPreferences :
          ScheduleNotifications(rule_priority, event_data, user_preference,
                                {"email"})
    \/ \E m \in calls.msgs : ShouldSendNotificationRead("w1", m)
    \/ ShouldSendNotificationSet("w1")
    \/ ProcessImmediateNotification("w1")
    \/ ExistingBatchLookup("w1")
    \/ AddToExistingBatch("w1")
    \/ CreateNotificationBatch("w1")

SpecNotify == InitNotify /\ [][NextNotify]_vars

\* ------------------------------------------------------------------------
\* monitoring/utils/task_distribution.py: TaskDistributor

NumLaneTasks == 3
SmallMaxTasks == 5

\* int(max_tasks * 0.4)
FortyPercent(max_tasks) == (max_tasks * 4) \div 10

HighSlots(max_tasks) == FortyPercent(max_tasks)
NormalSlots(max_tasks) == FortyPercent(max_tasks)
LowSlots(max_tasks) == max_tasks - HighSlots(max_tasks) - NormalSlots(max_tasks)

\* the loop of load_balance_monitoring_tasks over the tasks q that are left
RECURSIVE Allocate(_, _, _)
Allocate(q, lists, max_tasks) ==
    IF q = <<>> THEN lists
    ELSE
      LET t == Head(q)
          added ==
            IF /\ tasks[t].priority <= 3
               /\ Len(lists.high_priority) < HighSlots(max_tasks)
              THEN [lists EXCEPT !.high_priority = Append(@, t)]
            ELSE IF /\ tasks[t].priority <= 7
                    /\ Len(lists.normal_priority) < NormalSlots(max_tasks)
              THEN [lists EXCEPT !.normal_priority = Append(@, t)]
            ELSE IF Len(lists.low_priority) < LowSlots(max_tasks)
              THEN [lists EXCEPT !.low_priority = Append(@, t)]
            ELSE lists
      IN IF /\ Len(added.high_priority) >= HighSlots(max_tasks)
            /\ Len(added.normal_priority) >= NormalSlots(max_tasks)
            /\ Len(added.low_priority) >= LowSlots(max_tasks)
           THEN added
           ELSE Allocate(Tail(q), added, max_tasks)

\* the pending tasks that are due by the end of the time window
EligibleTasks ==
    {t \in TasksWithStatus("pending") : tasks[t].scheduled_time <= now}

\* TaskDistributor.load_balance_monitoring_tasks(max_tasks)
LoadBalanceMonitoringTasks(max_tasks) ==
    /\ lanes.pc = "idle"
    /\ EligibleTasks # {}
    /\ \E q \in OrderedTasks(EligibleTasks) :
          LET lists == Allocate(FirstN(q, max_tasks * 2), NoLanes, max_tasks)
          IN lanes' = [lanes EXCEPT
                 !.pc = "balanced",
                 !.high_priority = lists.high_priority,
                 !.normal_priority = lists.normal_priority,
                 !.low_priority = lists.low_priority]
    /\ UNCHANGED <<now, configs, products, tasks, results, stamp, sched, disp,
                   execs, thr, delivery, events, settings, cache, batches,
                   calls, batchq, retryq, rules, engine, load>>

Range(q) == {q[i] : i \in DOMAIN q}

\* random.shuffle(tasks): the tasks in any order
Shuffled(S) ==
    {q \in [1..Cardinality(S) -> S] : Range(q) = S}

\* the tasks of q that belong to the Celery queue of the name
RECURSIVE QueueOf(_, _)
QueueOf(q, queue_name) ==
    IF q = <<>> THEN <<>>
    ELSE IF Lane(tasks[Head(q)].priority) = queue_name
           THEN <<Head(q)>> \o QueueOf(Tail(q), queue_name)
           ELSE QueueOf(Tail(q), queue_name)

\* TaskDistributor.assign_to_queues(tasks, randomize=True) for the tasks that
\* load_balance_monitoring_tasks has returned
AssignToQueues ==
    LET given == Range(lanes.high_priority) \cup Range(lanes.normal_priority)
                   \cup Range(lanes.low_priority)
    IN /\ lanes.pc = "balanced"
       /\ \E q \in Shuffled(given) :
             lanes' = [lanes EXCEPT
                 !.pc = "idle",
                 !.queues = [queue_name \in DOMAIN lanes.queues |->
                               lanes.queues[queue_name] \o QueueOf(q, queue_name)]]
       /\ tasks' = [t \in DOMAIN tasks |->
                      IF t \in given THEN [tasks[t] EXCEPT !.status = "scheduled"]
                      ELSE tasks[t]]
       /\ UNCHANGED <<now, configs, products, results, stamp, sched, disp,
                      execs, thr, delivery, events, settings, cache, batches,
                      calls, batchq, retryq, rules, engine, load>>

LanePriorities == {2, 5, 9}

\* The lanes: tasks of the three bands that are due now or in an hour, the
\* dispatch cycle and the TaskDistributor
InitLanes ==
    /\ InitEngine
    /\ \E prio \in [1..NumLaneTasks -> LanePriorities],
          time \in [1..NumLaneTasks -> 0..MaxTime] :
          tasks = [t \in 1..NumLaneTasks |-> NewTask(1, time[t], prio[t])]

NextLanes ==
    \/ Tick
    \/ DispatchStart("d1")
    \/ DispatchDelay("d1")
    \/ DispatchSave("d1")
    \/ \E max_tasks \in {SmallMaxTasks, MaxTasksPerCycle} :
          LoadBalanceMonitoringTasks(max_tasks)
    \/ AssignToQueues

SpecLanes == InitLanes /\ [][NextLanes]_vars

\* The extractors: the life of one task of a product whose url is of a
\* retailer with an extractor, or of one without
ProductUrls == {"amazon", "boulanger"}

InitExtractor ==
    /\ now = 0
    /\ lanes = NoLanes
    /\ \E url \in ProductUrls :
          products = [p \in Products |-> [InitProduct EXCEPT !.url = url]]
    /\ results = <<>>
    /\ stamp = 0
    /\ sched = [s \in Schedulers |-> IdleScheduler(0)]
    /\ disp = [d \in Dispatchers |-> [pc |-> "idle", sent |-> NULL, queue |-> <<>>]]
    /\ execs = <<>>
    /\ InitOther
    /\ configs = [p \in Products |-> ScheduledConfig]
    /\ tasks = ScheduledTasks(<<1>>, DefaultPriorityScore \div 10)

NextExtractor ==
    \/ Dispatch("d1")
    \/ Worker
    \/ \E e \in DOMAIN execs : NoExtractorForRetailer(e)

SpecExtractor == InitExtractor /\ [][NextExtractor]_vars

\* The alerts of an observation: one task of a product with any history of
\* prices, with or without a last result, under any thresholds, and a page
\* that shows any price, stock and deal, or no price
AlertPrices == {0, 88, 90, 94, 100}
PercentageThreshold == 5
AbsoluteThreshold == 10

AlertData ==
    [price : AlertPrices \cup {NULL}, in_stock : BOOLEAN, is_deal : BOOLEAN]

\* the result a completed observation of the price and the stock has left
LastResultOf(price, stock) ==
    [NoResult EXCEPT !.product = 1, !.seq = 1, !.current_price = price,
                     !.currently_available = stock]

InitAlert ==
    /\ now = 0
    /\ lanes = NoLanes
    /\ stamp = 1
    /\ sched = [s \in Schedulers |-> IdleScheduler(0)]
    /\ disp = [d \in Dispatchers |-> [pc |-> "idle", sent |-> NULL, queue |-> <<>>]]
    /\ InitOther
    /\ tasks = <<[NewTask(1, 0, DefaultPriorityScore \div 10) EXCEPT
                     !.status = "scheduled", !.celery = 1]>>
    /\ execs = <<[NewMessage(1) EXCEPT
                     !.lane = Lane(DefaultPriorityScore \div 10)]>>
    /\ \E current \in AlertPrices, lowest \in AlertPrices, stock \in BOOLEAN :
          /\ lowest <= current
          /\ products = [p \in Products |->
                [InitProduct EXCEPT !.current_price = current,
                                    !.lowest_price = lowest,
                                    !.highest_price = 100,
                                    !.is_available = stock]]
          /\ results \in {<<>>, <<LastResultOf(current, stock)>>}
    /\ \E percentage \in {NULL, PercentageThreshold},
          absolute \in {NULL, AbsoluteThreshold}, any \in BOOLEAN :
          configs = [p \in Products |->
                [ScheduledConfig EXCEPT
                    !.price_threshold_percentage = percentage,
                    !.price_threshold_absolute = absolute,
                    !.notify_on_any_change = any]]

NextAlert ==
    \E e \in DOMAIN execs :
        \/ WorkerStart(e)
        \/ \E data \in AlertData : Analyze(e, data)
        \/ AnalyzeSave(e)
        \/ ProductUpdate(e)
        \/ WorkerComplete(e)

SpecAlert == InitAlert /\ [][NextAlert]_vars

\* C14: on every channel of the user the number of notifications that the
\* throttle admitted within one rate period never exceeds the configured
\* limit, also when several pipeline workers run the check concurrently.
C14_AdmittedWithinLimit ==
    \A channel \in Channels :
        cache.admitted[channel] <= settings.throttle_limit[channel]

\* C15: for every channel and batch type of the user at most one pending
\* batch that is due in the future exists, and no alert is an item of a
\* batch twice, so that alerts arriving before the open batch is due all
\* join that one batch.
C15_OneOpenBatchPerKey ==
    /\ \A channel \in Channels, batch_type \in BatchTypes :
          Cardinality(OpenBatches(channel, batch_type)) <= 1
    /\ \A b \in DOMAIN batches : \A i, j \in DOMAIN batches[b].items :
          batches[b].items[i] = batches[b].items[j] => i = j

\* C16: every batch is handed to processing exactly once: the processing
\* scheduled when the batch was created and the sweeps that run after the
\* batch is due send no second process_notification_batch message for it,
\* and the adapter is called at most once for it.
C16_HandedToProcessingOnce ==
    \A b \in DOMAIN batches :
        /\ batches[b].handed <= 1
        /\ batches[b].sends <= 1

\* C18: no alert whose elevated priority is 9 or more is ever placed in an
\* hourly or daily batch: every notification message of such an alert has
\* the batch type immediate, whatever the preference of the user and the
\* default of the channel are.
C18_CriticalIsImmediate ==
    /\ \A m \in calls.msgs :
          m.priority >= ForcedImmediatePriority => m.batch_type = "immediate"
    /\ \A w \in PipelineWorkers :
          calls.run[w].msg.priority >= ForcedImmediatePriority =>
             calls.run[w].msg.batch_type = "immediate"
    /\ \A b \in DOMAIN batches : \A i \in DOMAIN batches[b].items :
          calls.alerts[batches[b].items[i]].priority < ForcedImmediatePriority

\* an alert of priority 9 or more of a user who prefers hourly or daily
\* notifications has a delivery of its own, and a batch exists
C18_CriticalSentAlone ==
    /\ batches # <<>>
    /\ \E a \in DOMAIN calls.alerts :
          /\ calls.alerts[a].priority >= ForcedImmediatePriority
          /\ calls.alerts[a].user_preference \in {"hourly", "daily"}
          /\ \E d \in DOMAIN delivery : delivery[d].alert = a

\* C19: every task that a dispatch cycle selects is placed in the lane of
\* its priority band (high: priority <= 3, normal: 4 to 7, low: 8 to 10);
\* high-priority tasks beyond the slots of the high lane are left for the
\* next cycle and are in no allocation of the normal or the low lane.
C19_AllocatedToOwnBand ==
    /\ \A i \in DOMAIN execs : execs[i].lane = Lane(tasks[execs[i].task].priority)
    /\ \A i \in DOMAIN lanes.high_priority :
          Lane(tasks[lanes.high_priority[i]].priority) = "high_priority"
    /\ \A i \in DOMAIN lanes.normal_priority :
          Lane(tasks[lanes.normal_priority[i]].priority) = "default"
    /\ \A i \in DOMAIN lanes.low_priority :
          Lane(tasks[lanes.low_priority[i]].priority) = "low_priority"

\* (priority, scheduled_time, id) of task a is smaller than that of task b
TripleBefore(a, b) ==
    \/ TaskBefore(a, b)
    \/ /\ ~TaskBefore(b, a)
       /\ a < b

\* C20: of any two tasks enqueued on one lane, the one with the smaller
\* (priority, scheduledTime, id) triple is enqueued first.
C20_LaneInTripleOrder ==
    /\ \A i, j \in DOMAIN execs :
          (i < j /\ execs[i].lane = execs[j].lane /\ execs[i].task # execs[j].task)
             => TripleBefore(execs[i].task, execs[j].task)
    /\ \A queue_name \in DOMAIN lanes.queues :
          \A i, j \in DOMAIN lanes.queues[queue_name] :
             i < j => TripleBefore(lanes.queues[queue_name][i],
                                   lanes.queues[queue_name][j])

\* C21: when the extractor returns without usable data, so that the
\* execution leaves the extraction without a result to analyze, the task
\* becomes failed at once: its retry_count is not incremented, the message
\* is not sent back to its lane, and neither the product nor the results
\* change.
C21_NoDataFailsAtOnce ==
    [][\A e \in DOMAIN execs :
          (execs[e].pc = "started" /\ execs'[e].pc \notin {"started", "analyzing"})
             => /\ tasks'[execs[e].task].status = "failed"
                /\ tasks'[execs[e].task].retry_count
                     = tasks[execs[e].task].retry_count
                /\ execs'[e].pc = "done"
                /\ products' = products
                /\ results' = results]_vars

\* C22: when no extractor is registered for the host of the product's url
\* the execution fails and the task is marked failed: the task is running
\* only as long as a message of it is still to be executed or in execution.
C22_NoExtractorMarksFailed ==
    \A t \in TaskIds :
        (tasks[t].status = "running" /\ ~HasExtractor(products[tasks[t].product].url))
           => \E e \in DOMAIN execs : execs[e].task = t /\ execs[e].pc # "done"

\* the step in which execution e analyzes the data of the page
Analyzes(e) == execs[e].pc = "started" /\ execs'[e].pc = "analyzing"

\* C23: when the price of a new observation differs from the last one and
\* is at or below the lowest price of the product, the alert type of the
\* result is lowest_price, whatever price drop it is as well, and the update
\* of the product that follows lowers the lowest price to the new price.
C23_LowestPriceOverridesDrop ==
    [][\A e \in DOMAIN execs :
          /\ (/\ Analyzes(e)
              /\ execs'[e].data.price # NULL
              /\ execs'[e].result.price_changed
              /\ execs'[e].result.current_price <= execs[e].prod.lowest_price)
                => execs'[e].result.alert_type = "lowest_price"
          /\ (execs[e].pc = "analyzed" /\ execs'[e].pc = "updated")
                => products'[execs[e].inst.product].lowest_price
                     <= products'[execs[e].inst.product].current_price]_vars

\* the change of the result of execution e reaches a threshold of the config
\* of its product, in exact arithmetic
ReachesThreshold(e) ==
    LET r == execs'[e].result
        c == configs[execs[e].inst.product]
    IN  \/ c.notify_on_any_change
        \/ /\ c.price_threshold_absolute # NULL
           /\ Abs(r.price_change_amount) >= c.price_threshold_absolute
        \/ /\ c.price_threshold_percentage # NULL
           /\ r.previous_price > 0
           /\ Abs(r.price_change_amount) * 100
                >= c.price_threshold_percentage * r.previous_price

C25_FirstObservationOnlyDeal ==
    [][\A e \in DOMAIN execs :
          (Analyzes(e) /\ LastResult(execs[e].inst.product) = NULL)
             => LET r == execs'[e].result
                IN  /\ ~r.price_changed
                    /\ ~r.availability_changed
                    /\ r.previous_price = NULL
                    /\ r.alert_type = (IF r.is_deal THEN "deal" ELSE "none")
                    /\ r.alert_triggered = r.is_deal]_vars

\* the first result of a product is saved for a page in stock at a price
\* other than the price of the product, with the deal alert
C25_FirstObservationDeal ==
    /\ Len(results) = 1
    /\ results[1].produced_by = 1
    /\ results[1].previous_price = NULL
    /\ results[1].currently_available
    /\ results[1].current_price = 88
    /\ products[1].highest_price = 100
    /\ results[1].alert_type = "deal"

\* C26: when the last price of the product is 0 and the new price differs,
\* the result has the percentage 0, as a value that is set, and the change
\* amount is the new price.
C26_ZeroPreviousPriceGivesZeroPercent ==
    [][\A e \in DOMAIN execs :
          (/\ Analyzes(e)
           /\ execs'[e].result.price_changed
           /\ execs'[e].result.previous_price = 0)
             => LET r == execs'[e].result
                IN  /\ r.price_change_amount = r.current_price
                    /\ r.percentage_set
                    /\ r.price_change_percentage = 0]_vars

-----------------------------------------------------------------------------
(* The rule engine: AlertRule.evaluate and AlertRuleService.evaluate_event *)

ComparisonOperators == {"EQ", "GT", "LT", "GTE", "LTE"}

\* the values of the fields of an event: numbers (a Python bool is the number
\* 0 or 1) and strings
Number(n) == [type |-> "number", v |-> n]
Text == [type |-> "string", v |-> 0]

\* what a call gives: True, False, or an exception
Truth(b) == IF b THEN "true" ELSE "false"

\* a comparison of a field with a number, and the composed conditions
Comparison(operator, field, value) ==
    [operator |-> operator, field |-> field, value |-> value,
     conditions |-> <<>>]
Composed(operator, conditions) ==
    [operator |-> operator, field |-> "", value |-> 0,
     conditions |-> conditions]
\* the default of AlertRule.condition, an empty dict
NoCondition == Composed("", <<>>)

\* the comparison without the test of line 81: reading a field the event
\* has not raises a KeyError
CompareUnguarded(condition, event_data) ==
    IF condition.field \notin DOMAIN event_data THEN "error"
    ELSE LET field_value == event_data[condition.field]
         IN  IF condition.operator = "EQ"
               THEN Truth(field_value.type = "number"
                          /\ field_value.v = condition.value)
             ELSE IF field_value.type # "number" THEN "error"
             ELSE Truth(CASE condition.operator = "GT"
                               -> field_value.v > condition.value
                          [] condition.operator = "LT"
                               -> field_value.v < condition.value
                          [] condition.operator = "GTE"
                               -> field_value.v >= condition.value
                          [] condition.operator = "LTE"
                               -> field_value.v <= condition.value)

\* _evaluate_condition, lines 77-95: the comparison operators. A field the
\* event has not gives False; an order comparison of a string with a number
\* raises a TypeError, an equality test of them is False.
Compare(condition, event_data) ==
    IF condition.field \notin DOMAIN event_data THEN "false"
    ELSE LET field_value == event_data[condition.field]
         IN  IF condition.operator = "EQ"
               THEN Truth(field_value.type = "number"
                          /\ field_value.v = condition.value)
             ELSE IF field_value.type # "number" THEN "error"
             ELSE Truth(CASE condition.operator = "GT"
                               -> field_value.v > condition.value
                          [] condition.operator = "LT"
                               -> field_value.v < condition.value
                          [] condition.operator = "GTE"
                               -> field_value.v >= condition.value
                          [] condition.operator = "LTE"
                               -> field_value.v <= condition.value)

RECURSIVE EvaluateCondition(_, _), AllOf(_, _), AnyOf(_, _)

\* all(...) over a generator: stops at the first False, and at an exception
AllOf(conditions, event_data) ==
    IF conditions = <<>> THEN "true"
    ELSE LET first == EvaluateCondition(Head(conditions), event_data)
         IN  IF first = "true" THEN AllOf(Tail(conditions), event_data)
             ELSE first

\* any(...) over a generator: stops at the first True, and at an exception
AnyOf(conditions, event_data) ==
    IF conditions = <<>> THEN "false"
    ELSE LET first == EvaluateCondition(Head(conditions), event_data)
         IN  IF first = "false" THEN AnyOf(Tail(conditions), event_data)
             ELSE first

\* AlertRule._evaluate_condition; the condition of a NOT is the first of
\* its conditions, and an empty dict when it has none
EvaluateCondition(condition, event_data) ==
    CASE condition.operator = "AND" -> AllOf(condition.conditions, event_data)
      [] condition.operator = "OR" -> AnyOf(condition.conditions, event_data)
      [] condition.operator = "NOT" ->
            LET inner == IF condition.conditions = <<>> THEN "false"
                         ELSE EvaluateCondition(condition.conditions[1],
                                                event_data)
            IN  IF inner = "error" THEN "error" ELSE Truth(inner = "false")
      [] condition.operator \in ComparisonOperators ->
            Compare(condition, event_data)
      [] OTHER -> "false"

\* AlertRule.evaluate(event_data); product 0 is no product
Evaluate(rule, event) ==
    IF ~rule.is_active THEN "false"
    ELSE IF event.event_type # rule.rule_type THEN "false"
    ELSE IF rule.product # 0 /\ rule.product # event.product_id THEN "false"
    ELSE EvaluateCondition(rule.condition, event.data)

\* evaluate_event, lines 134-148: the rules of the query
QueriedRules(event) ==
    {r \in DOMAIN rules :
        /\ rules[r].is_active
        /\ rules[r].rule_type = event.event_type
        /\ event.product_id # 0 => rules[r].product \in {0, event.product_id}}

\* the query has no order_by: the orders in which it can give the rules
QueryOrders(event) ==
    LET R == QueriedRules(event)
    IN  {o \in [1..Cardinality(R) -> R] :
            \A i, j \in 1..Cardinality(R) : o[i] = o[j] => i = j}

\* what _schedule_notifications reads in the event
EventArguments(event) ==
    [event_type |-> event.event_type,
     price_diff_pct |-> IF "price_diff_pct" \in DOMAIN event.data
                          THEN event.data["price_diff_pct"].v ELSE 0,
     is_lowest_price |-> /\ "is_lowest_price" \in DOMAIN event.data
                         /\ event.data["is_lowest_price"].v # 0]

\* _generate_alert_message: the text chosen and the percentage it shows
GenerateAlertMessage(event) ==
    LET e == EventArguments(event)
    IN  [text |-> IF e.event_type = "price_drop"
                    THEN IF e.is_lowest_price THEN "lowest" ELSE "drop"
                    ELSE e.event_type,
         price_diff_pct |-> e.price_diff_pct]

\* _create_alert_from_rule: the alert of rule r, whose notifications are
\* those of the alert at place `notification` of the pipeline
CreateAlertFromRule(r, event, notification) ==
    [rule |-> r, user |-> rules[r].user,
     product |-> IF rules[r].product # 0 THEN rules[r].product
                 ELSE event.product_id,
     alert_type |-> IF event.event_type = "price_drop"
                       /\ EventArguments(event).is_lowest_price
                      THEN "lowest_price" ELSE event.event_type,
     message |-> GenerateAlertMessage(event),
     notification |-> notification]

RECURSIVE EvaluateRules(_, _, _)

\* the loop of evaluate_event, lines 153-160, over the rules in the order the
\* query gave them: an exception of rule.evaluate ends the evaluation
EvaluateRules(order, event, run) ==
    IF order = <<>> THEN run
    ELSE LET r == Head(order)
             fires == Evaluate(rules[r], event)
         IN  IF fires = "error" THEN [run EXCEPT !.failed = TRUE]
             ELSE IF fires = "true"
               THEN EvaluateRules(Tail(order), event,
                      [run EXCEPT
                         !.alerts = @ \cup {CreateAlertFromRule(r, event,
                                               Len(run.calls.alerts) + 1)},
                         !.calls = Scheduled(@, rules[r].priority,
                                      EventArguments(event),
                                      rules[r].user_preference, {"email"})])
             ELSE EvaluateRules(Tail(order), event, run)

MaxEvaluations == 2

\* AlertRuleService.evaluate_event(event_data) for the event of the engine
EvaluateEvent(order) ==
    /\ Len(engine.evaluations) < MaxEvaluations
    /\ order \in QueryOrders(engine.event)
    /\ LET run == EvaluateRules(order, engine.event,
                     [alerts |-> {}, failed |-> FALSE, calls |-> calls])
       IN  /\ engine' = [engine EXCEPT
                !.evaluations = Append(@, [alerts |-> run.alerts,
                                           failed |-> run.failed])]
           /\ calls' = run.calls
    /\ UNCHANGED <<now, configs, products, tasks, results, stamp, sched, disp,
                   execs, lanes, thr, delivery, events, settings, cache,
                   batches, batchq, retryq, rules, load>>

\* an AlertRule row; the notification frequency is the one of the
\* preferences of its user
NewRule(user, product, condition, priority) ==
    [user |-> user, product |-> product, rule_type |-> "price_drop",
     condition |-> condition, priority |-> priority, is_active |-> TRUE,
     user_preference |-> "hourly"]

\* the event of process_price_change_event for a price that went down
PriceDropEvent(product_id, price_diff_pct, is_lowest_price) ==
    [event_type |-> "price_drop", product_id |-> product_id,
     data |-> [price_diff_pct |-> Number(price_diff_pct),
               is_lowest_price |-> Number(IF is_lowest_price THEN 1 ELSE 0),
               product_title |-> Text]]

\* The conditions: comparisons of a field no price event has (confidence),
\* of the percentage and of the title, alone and under AND, OR and NOT
ConditionValue == 0 - 10
AbsentComparisons ==
    {Comparison(op, "confidence", ConditionValue) : op \in ComparisonOperators}
OtherComparisons ==
    {Comparison("LTE", "price_diff_pct", ConditionValue),
     Comparison("EQ", "product_title", ConditionValue),
     Comparison("LT", "product_title", ConditionValue)}
Comparisons == AbsentComparisons \cup OtherComparisons
Pairs ==
    {Composed(op, <<a, b>>) :
        op \in {"AND", "OR"},
        a \in AbsentComparisons, b \in Comparisons} \cup
    {Composed(op, <<b, a>>) :
        op \in {"AND", "OR"},
        a \in AbsentComparisons, b \in OtherComparisons}
Negations == {Composed("NOT", <<c>>) : c \in Comparisons \cup Pairs}
Nested ==
    {Composed(op, <<Composed("NOT", <<a>>), b>>) :
        op \in {"AND", "OR"},
        a \in AbsentComparisons, b \in OtherComparisons}
Conditions ==
    {NoCondition} \cup Comparisons \cup Pairs \cup Negations \cup Nested

InitCondition ==
    /\ InitNotifications
    /\ InitLoadOff
    /\ settings = NewSettings(DefaultThrottleLimit, "immediate")
    /\ \E condition \in Conditions :
          rules = <<NewRule(1, 0, condition, DefaultRulePriority)>>
    /\ \E price_diff_pct \in {0 - 15, ConditionValue, 0 - 5} :
          engine = [event |-> PriceDropEvent(1, price_diff_pct, FALSE),
                    evaluations |-> <<>>]

NextCondition == \E order \in QueryOrders(engine.event) : EvaluateEvent(order)

SpecCondition == InitCondition /\ [][NextCondition]_vars

\* Replays: two rules of two users and one price drop
ReplayConditions ==
    {Composed("AND", <<>>),
     Comparison("LTE", "price_diff_pct", ConditionValue),
     Comparison("LT", "product_title", ConditionValue)}
ReplayPriorities == {DefaultRulePriority, ForcedImmediatePriority}
ReplayRules(user) ==
    {[NewRule(user, product, condition, priority)
         EXCEPT !.is_active = is_active] :
        product \in {0, 1}, condition \in ReplayConditions,
        priority \in ReplayPriorities, is_active \in BOOLEAN}
PriceDrops == {0 - 25, 0 - 20, 0 - 15, 0 - 10, 0 - 5}

InitReplay ==
    /\ InitNotifications
    /\ InitLoadOff
    /\ settings = NewSettings(DefaultThrottleLimit, "immediate")
    /\ \E first \in ReplayRules(1), second \in ReplayRules(2) :
          rules = <<first, second>>
    /\ \E price_diff_pct \in PriceDrops, is_lowest_price \in BOOLEAN :
          engine = [event |-> PriceDropEvent(1, price_diff_pct,
                                             is_lowest_price),
                    evaluations |-> <<>>]

NextReplay == \E order \in QueryOrders(engine.event) : EvaluateEvent(order)

SpecReplay == InitReplay /\ [][NextReplay]_vars

-----------------------------------------------------------------------------

\* the priority the notifications of an alert of a rule of priority
\* `priority` have for a price drop of diff_pct percent
ElevatedPriority(priority, diff_pct, is_lowest_price) ==
    IF is_lowest_price THEN MaxNotificationPriority
    ELSE IF diff_pct >= 20 THEN Min(MaxNotificationPriority, priority + 2)
    ELSE IF diff_pct >= 10 THEN Min(MaxNotificationPriority, priority + 1)
    ELSE priority

\* C28: the notifications of the alert of a rule that fired on a price drop
\* have the priority of the rule plus 2 for a drop of 20 percent or more,
\* plus 1 for a drop of 10 percent or more and below 20, at most 10, and
\* the priority 10 when the price is the lowest ever; drops of exactly 20
\* and exactly 10 percent are raised.
C28_PriorityElevatedFromTenAndTwenty ==
    \A i \in DOMAIN engine.evaluations :
        \A a \in engine.evaluations[i].alerts :
            calls.alerts[a.notification].priority
               = ElevatedPriority(rules[a.rule].priority,
                    Abs(engine.event.data["price_diff_pct"].v),
                    engine.event.data["is_lowest_price"].v = 1)

RECURSIVE SubConditions(_)

\* a condition and all the conditions inside it
SubConditions(condition) ==
    {condition} \cup
    UNION {SubConditions(condition.conditions[i]) :
              i \in DOMAIN condition.conditions}

\* C29: a comparison (EQ, GT, LT, GTE, LTE) of a field that the event does
\* not have evaluates to False wherever it stands in the condition of a
\* rule, alone or under AND, OR and NOT; and an evaluation of the event
\* raises no exception unless the condition orders a field the event has
\* as a string against a number.
C29_AbsentFieldIsFalse ==
    \A r \in DOMAIN rules :
        LET data == engine.event.data
            inside == SubConditions(rules[r].condition)
        IN  /\ \A c \in inside :
                  (c.operator \in ComparisonOperators
                     /\ c.field \notin DOMAIN data)
                     => EvaluateCondition(c, data) = "false"
            /\ (\A c \in inside :
                   (c.operator \in ComparisonOperators \ {"EQ"}
                      /\ c.field \in DOMAIN data)
                      => data[c.field].type = "number")
                  => /\ Evaluate(rules[r], engine.event) # "error"
                     /\ \A i \in DOMAIN engine.evaluations :
                           ~engine.evaluations[i].failed

\* the event was evaluated against a rule whose condition is an AND of the
\* negation of a comparison of the absent field and of a comparison that
\* holds: the rule fired
C29_NegatedAbsentFieldFires ==
    /\ engine.evaluations # <<>>
    /\ rules[1].condition
         = Composed("AND",
              <<Composed("NOT", <<Comparison("GT", "confidence",
                                             ConditionValue)>>),
                Comparison("LTE", "price_diff_pct", ConditionValue)>>)
    /\ "confidence" \notin DOMAIN engine.event.data
    /\ ~engine.evaluations[1].failed
    /\ \E a \in engine.evaluations[1].alerts : a.rule = 1

\* the rules that fired in evaluation i and the alerts it created
TriggeredAlerts(i) ==
    {[rule |-> a.rule, user |-> a.user, product |-> a.product,
      alert_type |-> a.alert_type, message |-> a.message] :
        a \in engine.evaluations[i].alerts}

\* C30: two evaluations of the same event against the same rules trigger
\* the same rules and create the same alerts (user, product, type and
\* message), and the rules that fire are those that are active, of the type
\* of the event, of its product or of no product, and whose condition holds
\* for the fields of the event.
C30_ReplayGivesSameAlerts ==
    \A i, j \in DOMAIN engine.evaluations :
        /\ TriggeredAlerts(i) = TriggeredAlerts(j)
        /\ {a.rule : a \in TriggeredAlerts(i)}
             = {r \in DOMAIN rules : Evaluate(rules[r], engine.event) = "true"}

-----------------------------------------------------------------------------
(* The scheduler with more due configs than the batch holds *)

SmallBatchSize == 1
\* priority scores in tenths: 3.6 and the default 5.0
PriorityScores == {36, DefaultPriorityScore}

\* products whose config the admin deactivated, or set to the custom
\* frequency without hours (bulk_update), with the scores the prioritizer gave
InitDue ==
    /\ InitIdle
    /\ InitOther
    /\ configs \in [Products ->
          {[NewConfig(n) EXCEPT !.active = a, !.frequency = f,
                                !.priority_score = score] :
              n \in {0, MaxTime}, a \in BOOLEAN, f \in {"high", "custom"},
              score \in PriorityScores}]
    /\ tasks = <<>>

NextDue ==
    \/ Tick
    \/ \E s \in Schedulers :
          \/ \E batch_size \in {SmallBatchSize, BatchSize} :
                ScheduleSelect(s, batch_size)
          \/ SchedCommit(s)

SpecDue == InitDue /\ [][NextDue]_vars

\* the steps of invocation s: the query, and the transaction
Selects(s) == sched[s].pc = "idle" /\ sched'[s].pc = "selected"
Commits(s) == sched[s].pc = "selected" /\ sched'[s].pc = "idle"

\* C31: an invocation of the scheduler selects configs that are active and
\* due (next_scheduled <= now), at most batch_size of them; it creates one
\* pending task with scheduled_time = now for each selected config and none
\* for another config, sets next_scheduled of each selected config to now
\* plus the interval of its frequency, which is later than now, leaves every
\* other config unchanged, and returns the number of tasks it created.
C31_OneTaskPerSelectedConfig ==
    [][\A s \in Schedulers :
          /\ Selects(s) =>
                /\ \A p \in sched'[s].selected :
                      /\ configs[p].active
                      /\ configs[p].next_scheduled # NULL
                      /\ configs[p].next_scheduled <= now
                /\ Cardinality(sched'[s].selected) <= sched'[s].batch_size
                /\ sched'[s].now = now
                /\ tasks' = tasks /\ configs' = configs
          /\ Commits(s) =>
                LET created == (Len(tasks) + 1)..Len(tasks')
                    time == sched[s].now
                IN  /\ SubSeq(tasks', 1, Len(tasks)) = tasks
                    /\ \A t \in created :
                          /\ tasks'[t].status = "pending"
                          /\ tasks'[t].scheduled_time = time
                    /\ \A p \in Products :
                          Cardinality({t \in created : tasks'[t].product = p})
                             = IF p \in sched[s].selected THEN 1 ELSE 0
                    /\ \A p \in sched[s].selected :
                          /\ configs'[p].next_scheduled > time
                          /\ configs'[p].next_scheduled - time
                               = CASE configs[p].frequency = "high" -> 4
                                   [] configs[p].frequency = "normal" -> 12
                                   [] configs[p].frequency = "low" -> 24
                                   [] OTHER ->
                                        IF configs[p].custom_frequency_hours > 0
                                          THEN configs[p].custom_frequency_hours
                                          ELSE 12
                          /\ configs'[p] = [configs[p] EXCEPT !.next_scheduled =
                                               configs'[p].next_scheduled]
                    /\ \A p \in Products \ sched[s].selected :
                          configs'[p] = configs[p]
                    /\ sched'[s].tasks_created = Cardinality(created)]_vars

\* an invocation returned 1 after it created the task of the due config of
\* custom frequency, and left the inactive config, that was due as well,
\* without a task
C31_DueScheduledInactiveLeft ==
    /\ sched["s1"].pc = "idle"
    /\ sched["s1"].tasks_created = 1
    /\ Len(tasks) = 1
    /\ tasks[1].product = 1
    /\ configs[1].frequency = "custom"
    /\ configs[1].next_scheduled = 12
    /\ ~configs[2].active
    /\ configs[2].next_scheduled = 0

\* config a comes before config b by priority (the lower score first) and
\* then by next_scheduled
ConfigBefore(a, b) ==
    \/ configs[a].priority_score < configs[b].priority_score
    \/ /\ configs[a].priority_score = configs[b].priority_score
       /\ configs[a].next_scheduled < configs[b].next_scheduled

\* C32: an invocation of the scheduler that selects fewer configs than are
\* due leaves out no due config that comes, by priority and then by
\* next_scheduled, before a config it selects.
C32_SelectedInPriorityOrder ==
    [][\A s \in Schedulers :
          Selects(s) =>
             \A p \in sched'[s].selected :
                \A q \in DueConfigs \ sched'[s].selected :
                   ~ConfigBefore(q, p)]_vars

\* C36: every task the scheduler creates for a config has the priority
\* round(priority_score), the nearest integer of the score (3.6 gives 4).
C36_PriorityIsRoundedScore ==
    [][\A s \in Schedulers :
          Commits(s) =>
             \A t \in (Len(tasks) + 1)..Len(tasks') :
                tasks'[t].priority
                   = (configs[tasks'[t].product].priority_score + 5) \div 10
         ]_vars

-----------------------------------------------------------------------------
(* monitoring/utils/scheduling.py: MonitoringSchedulingUtils *)

HoursPerDay == 24
Hours == 0..(HoursPerDay - 1)
\* range(1, 12)
MaxOffset == 11

\* the test of lines 109, 116 and 121: hour has no entry in the dict, or
\* fewer than max_per_hour tasks
HasRoom(tasks_by_hour, hour, max_per_hour) ==
    \/ hour \notin DOMAIN tasks_by_hour
    \/ tasks_by_hour[hour] < max_per_hour

\* the hours _find_best_hour tries, in the order it tries them: the preferred
\* hour, then for each offset the hour after and the hour before
ProbedHours(preferred_hour) ==
    [i \in 1..(2 * MaxOffset + 1) |->
        IF i = 1 THEN preferred_hour
        ELSE IF i % 2 = 0 THEN (preferred_hour + i \div 2) % HoursPerDay
        ELSE (preferred_hour - i \div 2 + HoursPerDay) % HoursPerDay]

\* MonitoringSchedulingUtils._find_best_hour; NULL is None
FindBestHour(tasks_by_hour, preferred_hour, max_per_hour) ==
    LET probed == ProbedHours(preferred_hour)
        found == {i \in DOMAIN probed :
                     HasRoom(tasks_by_hour, probed[i], max_per_hour)}
    IN  IF found = {} THEN NULL
        ELSE probed[CHOOSE i \in found : \A j \in found : i <= j]

\* the call of _find_best_hour in the loop of distribute_load, line 59
FindBestHourCall ==
    /\ load.pc = "called"
    /\ load' = [load EXCEPT
          !.pc = "returned",
          !.best_hour = FindBestHour(load.tasks_by_hour, load.preferred_hour,
                                     load.max_per_hour)]
    /\ UNCHANGED <<now, configs, products, tasks, results, stamp, sched, disp,
                   execs, lanes, thr, delivery, events, settings, cache,
                   batches, calls, batchq, retryq, rules, engine>>

MaxPerHour == 2
PreferredHours == {0, 12, 23}
\* the hours that can have room, as distances from the preferred hour
FreeOffsets == {0, 1, 23, 11, 13, 12}

\* a day whose hours are full, but for some of the hours at the distances
\* FreeOffsets of the preferred hour, which have no task yet (no entry in
\* the dict) or one task less than the maximum
InitLoad ==
    /\ InitIdle
    /\ thr = [names |-> <<>>, running |-> <<>>, selected |-> <<>>, pc |-> "off"]
    /\ delivery = <<>>
    /\ events = 0
    /\ settings = <<>>
    /\ cache = <<>>
    /\ batches = <<>>
    /\ calls = <<>>
    /\ batchq = <<>>
    /\ retryq = <<>>
    /\ InitRulesOff
    /\ configs = [p \in Products |-> ScheduledConfig]
    /\ tasks = <<>>
    /\ \E preferred_hour \in PreferredHours, max_per_hour \in 1..MaxPerHour,
          free \in SUBSET FreeOffsets, entry \in BOOLEAN :
          LET room == {(preferred_hour + o) % HoursPerDay : o \in free}
          IN  load = [pc |-> "called", preferred_hour |-> preferred_hour,
                      max_per_hour |-> max_per_hour, best_hour |-> NULL,
                      tasks_by_hour |->
                         [h \in IF entry THEN Hours ELSE Hours \ room |->
                             IF h \in room THEN max_per_hour - 1
                             ELSE max_per_hour]]

NextLoad == FindBestHourCall

SpecLoad == InitLoad /\ [][NextLoad]_vars

\* C33: _find_best_hour gives the preferred hour when it has room, otherwise
\* the first hour with room in the order +1, -1, +2, -2, ..., and None only
\* if none of the 24 hours of the day has room.
C33_PlacedWheneverAnHourHasRoom ==
    load.pc = "returned" =>
       LET room == {h \in Hours : HasRoom(load.tasks_by_hour, h,
                                          load.max_per_hour)}
       IN  /\ load.preferred_hour \in room
                => load.best_hour = load.preferred_hour
           /\ load.best_hour # NULL => load.best_hour \in room
           /\ load.best_hour = NULL <=> room = {}

-----------------------------------------------------------------------------
(* monitoring/utils/task_distribution.py: distribute_retailers_evenly *)

RetailerOf(t) == products[tasks[t].product].retailer_id

\* the loop that groups the tasks q of the query by retailer: d is the dict
\* retailer_tasks, whose entries are in the order of their insertion
RECURSIVE GroupByRetailer(_, _)
GroupByRetailer(q, d) ==
    IF q = <<>> THEN d
    ELSE
      LET task == Head(q)
          at == {i \in DOMAIN d : d[i].retailer_id = RetailerOf(task)}
      IN  IF at = {}
            THEN GroupByRetailer(Tail(q),
                    Append(d, [retailer_id |-> RetailerOf(task),
                               tasks |-> <<task>>]))
            ELSE GroupByRetailer(Tail(q),
                    [d EXCEPT ![CHOOSE i \in at : TRUE].tasks = Append(@, task)])

\* tasks.sort(key=lambda x: (x.priority, x.scheduled_time)): the sort is
\* stable, tasks of equal keys keep their order
RECURSIVE SortedTasks(_)
SortedTasks(q) ==
    IF q = <<>> THEN <<>>
    ELSE
      LET least == {i \in DOMAIN q : \A j \in DOMAIN q : ~TaskBefore(q[j], q[i])}
          first == CHOOSE i \in least : \A j \in least : i <= j
      IN  <<q[first]>> \o SortedTasks(RemoveAt(q, first))

\* the body of the for loop without its break: it goes on to the next
\* retailer when distributed_tasks has max_tasks tasks
TakeFromRetailerWithoutBreak(st, retailer_id, max_tasks) ==
    LET at == CHOOSE i \in DOMAIN st.retailer_tasks :
                 st.retailer_tasks[i].retailer_id = retailer_id
        sorted == SortedTasks(st.retailer_tasks[at].tasks)
    IN  IF st.broke THEN st
        ELSE IF sorted = <<>>
          THEN [st EXCEPT !.retailer_tasks = RemoveAt(@, at)]
          ELSE [st EXCEPT
                  !.retailer_tasks[at].tasks = Tail(sorted),
                  !.distributed_tasks = Append(@, Head(sorted))]

\* the body of the for loop of distribute_retailers_evenly for one retailer
\* of the list the loop goes over; broke says that the loop was left
TakeFromRetailer(st, retailer_id, max_tasks) ==
    LET at == CHOOSE i \in DOMAIN st.retailer_tasks :
                 st.retailer_tasks[i].retailer_id = retailer_id
        sorted == SortedTasks(st.retailer_tasks[at].tasks)
    IN  IF st.broke THEN st
        ELSE IF sorted = <<>>
          THEN [st EXCEPT !.retailer_tasks = RemoveAt(@, at)]
          ELSE [st EXCEPT
                  !.retailer_tasks[at].tasks = Tail(sorted),
                  !.distributed_tasks = Append(@, Head(sorted)),
                  !.broke = Len(st.distributed_tasks) + 1 >= max_tasks]

\* for retailer_id, tasks in list(retailer_tasks.items()), from the item i on
RECURSIVE ForEachRetailer(_, _, _, _)
ForEachRetailer(items, i, st, max_tasks) ==
    IF i > Len(items) THEN st
    ELSE ForEachRetailer(items, i + 1,
            TakeFromRetailer(st, items[i].retailer_id, max_tasks), max_tasks)

\* distribute_retailers_evenly(max_tasks), up to its while loop
DistributeRetailersEvenly(max_tasks) ==
    /\ lanes.pc = "idle"
    /\ \E q \in OrderedTasks(EligibleTasks) :
          lanes' = [lanes EXCEPT
              !.pc = "distributing",
              !.max_tasks = max_tasks,
              !.retailer_tasks = GroupByRetailer(q, <<>>),
              !.distributed_tasks = <<>>]
    /\ UNCHANGED <<now, configs, products, tasks, results, stamp, sched, disp,
                   execs, thr, delivery, events, settings, cache, batches,
                   calls, batchq, retryq, rules, engine, load>>

\* one pass of the while loop of distribute_retailers_evenly
DistributeRound ==
    /\ lanes.pc = "distributing"
    /\ Len(lanes.distributed_tasks) < lanes.max_tasks
    /\ lanes.retailer_tasks # <<>>
    /\ LET st == ForEachRetailer(lanes.retailer_tasks, 1,
                    [retailer_tasks |-> lanes.retailer_tasks,
                     distributed_tasks |-> lanes.distributed_tasks,
                     broke |-> FALSE], lanes.max_tasks)
       IN  lanes' = [lanes EXCEPT
               !.retailer_tasks = st.retailer_tasks,
               !.distributed_tasks = st.distributed_tasks]
    /\ UNCHANGED <<now, configs, products, tasks, results, stamp, sched, disp,
                   execs, thr, delivery, events, settings, cache, batches,
                   calls, batchq, retryq, rules, engine, load>>

\* the while loop is left and distributed_tasks is returned
DistributeReturn ==
    /\ lanes.pc = "distributing"
    /\ ~ /\ Len(lanes.distributed_tasks) < lanes.max_tasks
         /\ lanes.retailer_tasks # <<>>
    /\ lanes' = [lanes EXCEPT !.pc = "distributed"]
    /\ UNCHANGED <<now, configs, products, tasks, results, stamp, sched, disp,
                   execs, thr, delivery, events, settings, cache, batches,
                   calls, batchq, retryq, rules, engine, load>>

NumRetailerTasks == 5
RetailerPriorities == {2, 5}
MaxDistributed == 3

\* Two retailers with one product each, and tasks of the two products, of
\* either priority; the first is due now or in an hour, the last is pending
\* or already scheduled
InitRetailers ==
    /\ now = 0
    /\ lanes = NoLanes
    /\ products = [p \in Products |-> [InitProduct EXCEPT !.retailer_id = p]]
    /\ results = <<>>
    /\ stamp = 0
    /\ sched = [s \in Schedulers |-> IdleScheduler(0)]
    /\ disp = [d \in Dispatchers |-> [pc |-> "idle", sent |-> NULL, queue |-> <<>>]]
    /\ execs = <<>>
    /\ InitOther
    /\ configs = [p \in Products |-> ScheduledConfig]
    /\ \E product \in [1..NumRetailerTasks -> Products],
          prio \in [1..NumRetailerTasks -> RetailerPriorities],
          time \in 0..MaxTime,
          scheduled \in SUBSET {NumRetailerTasks} :
          tasks = [t \in 1..NumRetailerTasks |->
                     [NewTask(product[t], IF t = 1 THEN time ELSE 0,
                              prio[t]) EXCEPT
                        !.status = IF t \in scheduled THEN "scheduled"
                                   ELSE "pending"]]

NextRetailers ==
    \/ Tick
    \/ \E max_tasks \in 1..MaxDistributed : DistributeRetailersEvenly(max_tasks)
    \/ DistributeRound
    \/ DistributeReturn

SpecRetailers == InitRetailers /\ [][NextRetailers]_vars

\* the tasks of the query that distribute_retailers_evenly has not selected
RemainingTasks(retailer_id) ==
    UNION {Range(lanes.retailer_tasks[i].tasks) :
             i \in {j \in DOMAIN lanes.retailer_tasks :
                      lanes.retailer_tasks[j].retailer_id = retailer_id}}

SelectedTasks(retailer_id) ==
    {t \in Range(lanes.distributed_tasks) : RetailerOf(t) = retailer_id}

\* what is left to do in the while loop
LeftToDistribute ==
    Len(lanes.retailer_tasks)
      + Cardinality(UNION {RemainingTasks(r) : r \in Products})

EvenlyDistributed ==
    lanes.pc \in {"distributing", "distributed"} =>
       LET d == lanes.distributed_tasks
       IN  /\ Len(d) <= lanes.max_tasks
           /\ Cardinality(Range(d)) = Len(d)
           /\ \A t \in Range(d) :
                 /\ tasks[t].status = "pending"
                 /\ tasks[t].scheduled_time <= now
                 /\ \A u \in RemainingTasks(RetailerOf(t)) : ~TaskBefore(u, t)
           /\ \A i, j \in DOMAIN d :
                 i < j /\ RetailerOf(d[i]) = RetailerOf(d[j])
                    => ~TaskBefore(d[j], d[i])
           /\ \A r1, r2 \in Products :
                 RemainingTasks(r1) # {} /\ RemainingTasks(r2) # {}
                    => Abs(Cardinality(SelectedTasks(r1))
                             - Cardinality(SelectedTasks(r2))) <= 1

\* C34: distribute_retailers_evenly returns at most max_tasks distinct
\* pending tasks that are due, the best remaining ones of each retailer by
\* (priority, scheduled_time); the numbers selected for two retailers that
\* still have unselected tasks differ by at most one; and every pass of its
\* while loop leaves less to do, so the loop ends.
C34_EvenSpreadOverRetailers ==
    /\ []EvenlyDistributed
    /\ [][lanes.pc = "distributing" /\ lanes'.pc = "distributing"
             /\ lanes' # lanes
          => LeftToDistribute' < LeftToDistribute]_vars

\* the budget is spent while both retailers have tasks left, one of them
\* with one task more than the other in the selection
C34_BudgetSpentOverTwoBacklogs ==
    /\ lanes.pc = "distributed"
    /\ Len(lanes.distributed_tasks) = MaxDistributed
    /\ \A r \in Products : RemainingTasks(r) # {}
    /\ \E r1, r2 \in Products :
          Cardinality(SelectedTasks(r1)) = Cardinality(SelectedTasks(r2)) + 1

-----------------------------------------------------------------------------
(* monitoring/utils/task_distribution.py: optimize_queue_consumption *)

\* range(4), range(2) and the single test of the low tasks
HighPerCycle == 4
NormalPerCycle == 2
LowPerCycle == 1

\* the next tasks of the list q from the index on, n of them at most
TakeUpTo(q, index, n) == SubSeq(q, index + 1, Min(index + n, Len(q)))

\* a loop that serves the low tasks only when no high task is left
ConsumptionCycleHighFirst(l) ==
    LET high == TakeUpTo(l.high_priority, l.high_index, HighPerCycle)
        normal == TakeUpTo(l.normal_priority, l.normal_index, NormalPerCycle)
        low == IF l.high_index + Len(high) < Len(l.high_priority) THEN <<>>
               ELSE TakeUpTo(l.low_priority, l.low_index, LowPerCycle)
    IN  [l EXCEPT !.optimized_queue = @ \o high \o normal \o low,
                  !.high_index = @ + Len(high),
                  !.normal_index = @ + Len(normal),
                  !.low_index = @ + Len(low)]

\* the body of the while loop of optimize_queue_consumption
ConsumptionCycle(l) ==
    LET high == TakeUpTo(l.high_priority, l.high_index, HighPerCycle)
        normal == TakeUpTo(l.normal_priority, l.normal_index, NormalPerCycle)
        low == TakeUpTo(l.low_priority, l.low_index, LowPerCycle)
    IN  [l EXCEPT !.optimized_queue = @ \o high \o normal \o low,
                  !.high_index = @ + Len(high),
                  !.normal_index = @ + Len(normal),
                  !.low_index = @ + Len(low)]

\* the condition of the while loop
TasksLeftToConsume ==
    \/ lanes.high_index < Len(lanes.high_priority)
    \/ lanes.normal_index < Len(lanes.normal_priority)
    \/ lanes.low_index < Len(lanes.low_priority)

\* optimize_queue_consumption(high_tasks, normal_tasks, low_tasks) for the
\* three lists of load_balance_monitoring_tasks, up to its while loop
OptimizeQueueConsumption ==
    /\ lanes.pc = "balanced"
    /\ lanes' = [lanes EXCEPT !.pc = "optimizing", !.optimized_queue = <<>>,
                    !.high_index = 0, !.normal_index = 0, !.low_index = 0]
    /\ UNCHANGED <<now, configs, products, tasks, results, stamp, sched, disp,
                   execs, thr, delivery, events, settings, cache, batches,
                   calls, batchq, retryq, rules, engine, load>>

\* one pass of the while loop
OptimizeCycle ==
    /\ lanes.pc = "optimizing"
    /\ TasksLeftToConsume
    /\ lanes' = ConsumptionCycle(lanes)
    /\ UNCHANGED <<now, configs, products, tasks, results, stamp, sched, disp,
                   execs, thr, delivery, events, settings, cache, batches,
                   calls, batchq, retryq, rules, engine, load>>

\* the while loop is left and optimized_queue is returned
OptimizeReturn ==
    /\ lanes.pc = "optimizing"
    /\ ~TasksLeftToConsume
    /\ lanes' = [lanes EXCEPT !.pc = "optimized"]
    /\ UNCHANGED <<now, configs, products, tasks, results, stamp, sched, disp,
                   execs, thr, delivery, events, settings, cache, batches,
                   calls, batchq, retryq, rules, engine, load>>

MaxHighTasks == 5
MaxNormalTasks == 3
MaxLowTasks == 2

\* up to ten pending tasks in the three lists, in any order within a list:
\* more than a cycle takes of each
InitConsumption ==
    /\ now = 0
    /\ products = [p \in Products |-> InitProduct]
    /\ results = <<>>
    /\ stamp = 0
    /\ sched = [s \in Schedulers |-> IdleScheduler(0)]
    /\ disp = [d \in Dispatchers |-> [pc |-> "idle", sent |-> NULL, queue |-> <<>>]]
    /\ execs = <<>>
    /\ InitOther
    /\ configs = [p \in Products |-> ScheduledConfig]
    /\ \E nh \in 0..MaxHighTasks, nn \in 0..MaxNormalTasks,
          nl \in 0..MaxLowTasks, reversed \in BOOLEAN :
          LET ids(from, n) ==
                 [i \in 1..n |-> IF reversed THEN from + n - i ELSE from + i - 1]
          IN  /\ tasks = [t \in 1..(nh + nn + nl) |->
                            NewTask(1, 0, IF t <= nh THEN 2
                                          ELSE IF t <= nh + nn THEN 5 ELSE 9)]
              /\ lanes = [NoLanes EXCEPT
                            !.pc = "balanced",
                            !.high_priority = ids(1, nh),
                            !.normal_priority = ids(nh + 1, nn),
                            !.low_priority = ids(nh + nn + 1, nl)]

NextConsumption ==
    \/ OptimizeQueueConsumption
    \/ OptimizeCycle
    \/ OptimizeReturn

SpecConsumption == InitConsumption /\ [][NextConsumption]_vars

\* the tasks of the lane in the queue, in the order of the queue
OfLane(queue, lane) == SelectSeq(queue, LAMBDA t : t \in Range(lane))

\* the cycle of the 4:2:1 rhythm and the place in the cycle of the task at
\* the position i of the queue: per_cycle tasks of its lane go in a cycle
CycleOf(queue, i) ==
    LET t == queue[i]
        rank(lane) == Len(OfLane(SubSeq(queue, 1, i), lane))
    IN  IF t \in Range(lanes.high_priority)
          THEN <<(rank(lanes.high_priority) - 1) \div HighPerCycle, 1>>
        ELSE IF t \in Range(lanes.normal_priority)
          THEN <<(rank(lanes.normal_priority) - 1) \div NormalPerCycle, 2>>
        ELSE <<(rank(lanes.low_priority) - 1) \div LowPerCycle, 3>>

Interleaved ==
    lanes.pc = "optimized" =>
       LET queue == lanes.optimized_queue
           given == Range(lanes.high_priority) \cup Range(lanes.normal_priority)
                       \cup Range(lanes.low_priority)
       IN  /\ Range(queue) = given
           /\ Len(queue) = Cardinality(given)
           /\ OfLane(queue, lanes.high_priority) = lanes.high_priority
           /\ OfLane(queue, lanes.normal_priority) = lanes.normal_priority
           /\ OfLane(queue, lanes.low_priority) = lanes.low_priority
           /\ \A i, j \in DOMAIN queue :
                 i < j =>
                    \/ CycleOf(queue, i)[1] < CycleOf(queue, j)[1]
                    \/ /\ CycleOf(queue, i)[1] = CycleOf(queue, j)[1]
                       /\ CycleOf(queue, i)[2] <= CycleOf(queue, j)[2]
           /\ lanes.low_priority # <<>> =>
                 \E i \in DOMAIN queue :
                    /\ i <= HighPerCycle + NormalPerCycle + LowPerCycle
                    /\ queue[i] \in Range(lanes.low_priority)

\* what is left to do in the while loop
LeftToConsume ==
    Len(lanes.high_priority) + Len(lanes.normal_priority)
      + Len(lanes.low_priority)
      - (lanes.high_index + lanes.normal_index + lanes.low_index)

\* C35: optimize_queue_consumption returns every task of its three lists
\* once, in the order of its list, in cycles of up to 4 high, then up to 2
\* normal, then up to 1 low task, so a low task, if there is one, is among
\* the first 7; and every pass of its while loop leaves fewer tasks to take,
\* so the loop ends.
C35_InterleavedFourTwoOne ==
    /\ []Interleaved
    /\ [][lanes.pc = "optimizing" /\ lanes'.pc = "optimizing"
          => LeftToConsume' < LeftToConsume]_vars

\* a queue of more than one cycle of each list
C35_SeveralCyclesInterleaved ==
    /\ lanes.pc = "optimized"
    /\ Len(lanes.optimized_queue) = MaxHighTasks + MaxNormalTasks + MaxLowTasks
    /\ Len(lanes.high_priority) > HighPerCycle
    /\ Len(lanes.normal_priority) > NormalPerCycle
    /\ Len(lanes.low_priority) > LowPerCycle

-----------------------------------------------------------------------------
(* monitoring/tasks.py: process_monitoring_queue, runs that overlap *)

\* the messages process_monitoring_queue has put on a lane for the task
MessagesOf(t) == {e \in DOMAIN execs : execs[e].task = t}

\* C37: a task is put on a lane once for each time it was pending: once
\* when it was created and once more for each retry that mark_as_failed has
\* made pending again, whatever the number of runs of the dispatcher.
C37_EnqueuedOncePerAdmission ==
    \A t \in TaskIds :
       Cardinality(MessagesOf(t)) <= 1 + tasks[t].retry_count

-----------------------------------------------------------------------------
(* monitoring/tasks.py: _perform_monitoring under fair scheduling *)

\* a step of the execution of the message e: a worker takes the message, or
\* the execution goes on, raises or ends
Execution(e) ==
    /\ e \in DOMAIN execs
    /\ \/ WorkerStart(e)
       \/ AnalyzeRead(e)
       \/ AnalyzeSave(e)
       \/ ProductUpdate(e)
       \/ WorkerComplete(e)
       \/ WorkerFail(e)
       \/ NoExtractorForRetailer(e)

\* The extractors, when the run of the dispatcher goes on to its end, every
\* message on a lane is taken by a worker and every execution goes on until
\* it returns or raises
SpecExtractorFair ==
    /\ SpecExtractor
    /\ WF_vars(Dispatch("d1"))
    /\ \A e \in 1..MaxTasks : WF_vars(Execution(e))

\* C38: a task that is running is, some time later, no longer running.
C38_RunningTaskLeavesRunning ==
    \A t \in 1..MaxTasks :
       (t \in TaskIds /\ tasks[t].status = "running")
          ~> (t \in TaskIds /\ tasks[t].status # "running")

-----------------------------------------------------------------------------
(* notifications/tasks.py: schedule_notification_delivery, calls that overlap *)

\* C39: items_count of every batch is the number of its items.
C39_ItemsCountIsNumberOfItems ==
    \A b \in DOMAIN batches :
       batches[b].items_count = Len(batches[b].items)

-----------------------------------------------------------------------------
(* notifications/tasks.py: should_send_notification over time *)

TimedThrottleLimit == 2

\* The throttle over time: alerts of immediate notifications by e-mail under
\* a limit of 2 in a period of 3 units of the clock
InitThrottlePeriod ==
    /\ InitPipeline
    /\ settings = NewSettings(TimedThrottleLimit, "immediate")

NextThrottlePeriod ==
    \/ ScheduleNotifications(DefaultRulePriority, PriceRise, "immediate",
                             {"email"})
    \/ \E w \in PipelineWorkers :
          \/ \E m \in calls.msgs : ShouldSendNotificationRead(w, m)
          \/ ShouldSendNotificationSet(w)
          \/ ProcessImmediateNotification(w)
    \/ CacheTick

SpecThrottlePeriod == InitThrottlePeriod /\ [][NextThrottlePeriod]_vars

\* should_send_notification answers False to the message m because the
\* counter of its channel has reached the limit
RateRejects(m) ==
    /\ m \in calls.msgs
    /\ calls' = [calls EXCEPT !.msgs = @ \ {m}]
    /\ <<m.alert, m.channel>> \notin cache.alerts

\* the number of True answers for the channel in the period that ends now
AdmittedInPeriod(channel) ==
    Cardinality({i \in DOMAIN cache.log[channel] :
                    cache.log[channel][i] >= now - ThrottlePeriod})

\* C40: should_send_notification rejects a notification for rate only if the
\* limit of notifications was admitted for its channel within the period
\* that ends at the check, and a rejected check leaves the cache as it was.
C40_RateRejectedOnlyAtLimitInPeriod ==
    [][\A m \in calls.msgs :
          RateRejects(m) =>
             /\ AdmittedInPeriod(m.channel)
                   >= settings.throttle_limit[m.channel]
             /\ UNCHANGED cache]_vars

=============================================================================
